---------------------------- MODULE Spec2Model ----------------------------
(***************************************************************************)
(* ShapeBridge: the session cache (shapebridge_mcp/tools.py), the          *)
(* STEPGraph-IR graph data model (stepgraph_ir/schema.py) and its          *)
(* deterministic JSONL codec (stepgraph_ir/serialize.py).                  *)
(*                                                                         *)
(* Python dicts are modelled as sequences of entries in insertion order    *)
(* (a dict keeps the position of a key that is assigned again), Python     *)
(* lists as sequences, None as the record PyNone.                          *)
(***************************************************************************)
EXTENDS Integers, Sequences, FiniteSets, TLC

VARIABLES
    max_models,   \* ShapeBridgeSession._max_models
    models,       \* ShapeBridgeSession._models: entries [k, v] of id and handle
    summaries,    \* ShapeBridgeSession._summaries: a function id -> summary
    load_times,   \* ShapeBridgeSession._load_times: entries [k, v] of id and load time
    call,         \* the last session call: operation, inputs, outcome
    args,         \* the arguments the IR was constructed from
    ir,           \* an IR object (stepgraph_ir.schema.IR), or None
    wire,         \* a persisted JSONL record (the parsed line), or None
    step          \* the last graph or codec call: operation, inputs, outcome

sessionVars == <<max_models, models, summaries, load_times, call>>

graphVars == <<args, ir, wire, step>>

vars == <<max_models, models, summaries, load_times, call, args, ir, wire, step>>

-----------------------------------------------------------------------------
(* Bounds of the model *)

MaxCap == 2      \* max_models ranges over 0..MaxCap

ModelIds == {"m0", "m1", "m2"}
FilePaths == {"m0.step", "m1.step", "m2.step"}
ErrorTexts == {"boom"}

\* what time.time() may return. The session only compares load times, and
\* three values realise every relative order of the load times of three ids;
\* the clock is the wall clock, so a later read may return a smaller value.
LoadTimes == {0, 1, 2}

PyNone == [kind |-> "None"]

-----------------------------------------------------------------------------
(* Python dict and list helpers *)

Range(s) == {s[i] : i \in 1..Len(s)}

DictKeys(d) == {d[i].k : i \in 1..Len(d)}

DictHas(d, key) == \E i \in 1..Len(d) : d[i].k = key

DictIndex(d, key) == CHOOSE i \in 1..Len(d) : d[i].k = key

\* d.get(k): the stored value, or None
DictGet(d, key) == IF DictHas(d, key) THEN d[DictIndex(d, key)].v ELSE PyNone

\* d[k] = v: an existing key keeps its position, a new key goes last
DictSet(d, key, value) ==
    IF DictHas(d, key)
    THEN [d EXCEPT ![DictIndex(d, key)] = [k |-> key, v |-> value]]
    ELSE Append(d, [k |-> key, v |-> value])

\* del d[k] guarded by "if k in d"
DictDel(d, key) == SelectSeq(d, LAMBDA e : e.k # key)

\* the same three operations for a dict whose order nothing reads, kept as a
\* function on its key set
MapGet(f, k) == IF k \in DOMAIN f THEN f[k] ELSE PyNone

MapSet(f, k, v) == [x \in DOMAIN f \cup {k} |-> IF x = k THEN v ELSE f[x]]

MapDel(f, k) == [x \in DOMAIN f \ {k} |-> f[x]]

\* s[:-n] of Python for n >= 0; -0 is 0, so s[:-0] is s[:0], the empty list
SliceToMinus(s, n) ==
    IF n = 0 THEN <<>>
    ELSE IF n >= Len(s) THEN <<>>
    ELSE SubSeq(s, 1, Len(s) - n)

\* insert e into the sorted sequence s after every entry whose key is <= e's
RECURSIVE InsertByValue(_, _)
InsertByValue(s, e) ==
    IF s = <<>> THEN <<e>>
    ELSE IF e.v < Head(s).v THEN <<e>> \o s
    ELSE <<Head(s)>> \o InsertByValue(Tail(s), e)

\* a mutant of SortedByValue: ties between equal values are broken by key
RECURSIVE InsertByValueThenId(_, _)
InsertByValueThenId(s, e) ==
    IF s = <<>> THEN <<e>>
    ELSE IF e.v < Head(s).v \/ (e.v = Head(s).v /\ e.k = "m0" /\ Head(s).k # "m0")
         THEN <<e>> \o s
    ELSE <<Head(s)>> \o InsertByValueThenId(Tail(s), e)

RECURSIVE SortedByValueThenId(_)
SortedByValueThenId(d) ==
    IF d = <<>> THEN <<>>
    ELSE InsertByValueThenId(SortedByValueThenId(SubSeq(d, 1, Len(d) - 1)), d[Len(d)])

\* a mutant of SortedByValue: newest first
RECURSIVE InsertByValueDesc(_, _)
InsertByValueDesc(s, e) ==
    IF s = <<>> THEN <<e>>
    ELSE IF e.v > Head(s).v THEN <<e>> \o s
    ELSE <<Head(s)>> \o InsertByValueDesc(Tail(s), e)

RECURSIVE SortedByValueDesc(_)
SortedByValueDesc(d) ==
    IF d = <<>> THEN <<>>
    ELSE InsertByValueDesc(SortedByValueDesc(SubSeq(d, 1, Len(d) - 1)), d[Len(d)])

\* a mutant of SortedByValue: an entry goes before the entries of equal value
RECURSIVE InsertBeforeTies(_, _)
InsertBeforeTies(s, e) ==
    IF s = <<>> THEN <<e>>
    ELSE IF e.v <= Head(s).v THEN <<e>> \o s
    ELSE <<Head(s)>> \o InsertBeforeTies(Tail(s), e)

RECURSIVE SortedByValueTiesReversed(_)
SortedByValueTiesReversed(d) ==
    IF d = <<>> THEN <<>>
    ELSE InsertBeforeTies(SortedByValueTiesReversed(SubSeq(d, 1, Len(d) - 1)),
                          d[Len(d)])

\* sorted(d.items(), key=lambda x: x[1]): a stable sort by value
RECURSIVE SortedByValue(_)
SortedByValue(d) ==
    IF d = <<>> THEN <<>>
    ELSE InsertByValue(SortedByValue(SubSeq(d, 1, Len(d) - 1)), d[Len(d)])

-----------------------------------------------------------------------------
(* kernel collaborators, at their interface *)

\* Path(file_path).stem, the model id of a LoadedModel
Stem(path) == SubSeq(path, 1, Len(path) - 5)

\* the LoadedModel a successful load_step returns
LoadedModel(path) ==
    [kind |-> "LoadedModel", model_id |-> Stem(path), file_path |-> path]

\* the GeometrySummary a successful summarize_shape returns for a handle
ComputedSummary(handle) ==
    [kind |-> "GeometrySummary", model_id |-> handle.model_id,
     placeholder |-> FALSE, of |-> handle.file_path, analysis_warnings |-> <<>>]

create_placeholder_summary(model_id, error_message) ==
    [kind |-> "GeometrySummary", model_id |-> model_id,
     placeholder |-> TRUE, of |-> "",
     analysis_warnings |-> <<"Analysis failed: " \o error_message>>]

-----------------------------------------------------------------------------
(* ShapeBridgeSession *)

Session == [models |-> models, summaries |-> summaries, load_times |-> load_times]

\* a mutant of remove_model: the cached summary is left behind
remove_model_keeps_summary(s, model_id) ==
    [models |-> DictDel(s.models, model_id),
     summaries |-> s.summaries,
     load_times |-> DictDel(s.load_times, model_id)]

\* a mutant of remove_model: the load-time record is left behind
remove_model_keeps_load_time(s, model_id) ==
    [models |-> DictDel(s.models, model_id),
     summaries |-> MapDel(s.summaries, model_id),
     load_times |-> s.load_times]

\* ShapeBridgeSession.remove_model on a session value
remove_model(s, model_id) ==
    [models |-> DictDel(s.models, model_id),
     summaries |-> MapDel(s.summaries, model_id),
     load_times |-> DictDel(s.load_times, model_id)]

RECURSIVE RemoveAll(_, _)
RemoveAll(s, victims) ==
    IF victims = <<>> THEN s
    ELSE RemoveAll(remove_model(s, Head(victims).k), Tail(victims))

\* a mutant of models_to_remove: the newest entries are the victims
models_to_remove_newest(s, cap) == SliceToMinus(SortedByValueDesc(s.load_times), cap)

\* a mutant of models_to_remove: ties are not kept in insertion order
models_to_remove_unstable(s, cap) == SliceToMinus(SortedByValueThenId(s.load_times), cap)

\* a mutant of models_to_remove: of two entries with one load time the one
\* inserted later comes first
models_to_remove_ties_reversed(s, cap) ==
    SliceToMinus(SortedByValueTiesReversed(s.load_times), cap)

\* sorted_models[:-self._max_models]
models_to_remove(s, cap) == SliceToMinus(SortedByValue(s.load_times), cap)

\* ShapeBridgeSession.cleanup_old_models on a session value
cleanup_old_models(s, cap) ==
    IF Len(s.models) <= cap THEN s
    ELSE RemoveAll(s, models_to_remove(s, cap))

has_model(model_id) == DictHas(models, model_id)
get_model(model_id) == DictGet(models, model_id)
get_summary(model_id) == MapGet(summaries, model_id)

\* what a call left alone: one flag per session map, TRUE when the call
\* ended with the map exactly as it found it
Kept(s) ==
    [models |-> s.models = models, summaries |-> s.summaries = summaries,
     load_times |-> s.load_times = load_times]

NoCall ==
    [op |-> "none", arg |-> "", t |-> 0, collaborator |-> "none", error_text |-> "",
     outcome |-> "none", raised |-> "", result |-> PyNone, invoked |-> FALSE,
     held |-> <<>>, kept |-> Kept(Session)]

\* the session maps become s; the call record notes what was kept
Finish(s, record) ==
    /\ models' = s.models
    /\ summaries' = s.summaries
    /\ load_times' = s.load_times
    /\ call' = [record EXCEPT !.kept = Kept(s)]
    /\ UNCHANGED <<max_models, graphVars>>

\* a mutant of LoadModelFailed: the load time is recorded before load_step runs
LoadModelFailedAfterStore(file_path) ==
    Finish([Session EXCEPT !.load_times = DictSet(@, Stem(file_path), 0)],
           [NoCall EXCEPT !.op = "load_model", !.arg = file_path,
                          !.collaborator = "raised", !.outcome = "raised",
                          !.raised = "SessionError"])

\* load_model when load_step raises StepImportError or OCCTNotAvailableError:
\* one except clause wraps both into SessionError
LoadModelFailed(file_path) ==
    Finish(Session,
           [NoCall EXCEPT !.op = "load_model", !.arg = file_path,
                          !.collaborator = "raised", !.outcome = "raised",
                          !.raised = "SessionError"])

\* load_model when load_step returns a LoadedModel; t is what time.time() returns
LoadModelLoaded(file_path, t) ==
    LET h == LoadedModel(file_path)
        stored == [Session EXCEPT !.models = DictSet(@, h.model_id, h),
                                  !.load_times = DictSet(@, h.model_id, t)]
    IN Finish(cleanup_old_models(stored, max_models),
              [NoCall EXCEPT !.op = "load_model", !.arg = file_path, !.t = t,
                             !.collaborator = "returned", !.outcome = "returned",
                             !.result = h, !.held = stored.load_times])

LoadModel ==
    \E file_path \in FilePaths :
        \/ \E t \in LoadTimes : LoadModelLoaded(file_path, t)
        \/ LoadModelFailed(file_path)

\* a mutant of GenerateSummaryNotFound: a placeholder is cached and returned
GenerateSummaryNotFoundCaches(model_id) ==
    /\ ~DictHas(models, model_id)
    /\ LET summary == create_placeholder_summary(model_id, "Model not found")
       IN Finish([Session EXCEPT !.summaries = MapSet(@, model_id, summary)],
                 [NoCall EXCEPT !.op = "generate_summary", !.arg = model_id,
                                !.outcome = "returned", !.result = summary])

\* generate_summary for an id that is not stored
GenerateSummaryNotFound(model_id) ==
    /\ ~DictHas(models, model_id)
    /\ Finish(Session,
              [NoCall EXCEPT !.op = "generate_summary", !.arg = model_id,
                             !.outcome = "raised", !.raised = "SessionError"])

\* generate_summary when summarize_shape returns
GenerateSummaryComputed(model_id) ==
    /\ DictHas(models, model_id)
    /\ LET summary == ComputedSummary(DictGet(models, model_id))
       IN Finish([Session EXCEPT !.summaries = MapSet(@, model_id, summary)],
                 [NoCall EXCEPT !.op = "generate_summary", !.arg = model_id,
                                !.collaborator = "returned", !.invoked = TRUE,
                                !.outcome = "returned", !.result = summary])

\* a mutant of GenerateSummaryFailed: the failure is propagated and the
\* failing model dropped
GenerateSummaryFailedDrops(model_id, error_text) ==
    /\ DictHas(models, model_id)
    /\ Finish(remove_model(Session, model_id),
              [NoCall EXCEPT !.op = "generate_summary", !.arg = model_id,
                             !.collaborator = "raised",
                             !.error_text = error_text, !.invoked = TRUE,
                             !.outcome = "raised", !.raised = "SessionError"])

\* generate_summary when summarize_shape raises Exception(error_text)
GenerateSummaryFailed(model_id, error_text) ==
    /\ DictHas(models, model_id)
    /\ LET summary == create_placeholder_summary(model_id, error_text)
       IN Finish([Session EXCEPT !.summaries = MapSet(@, model_id, summary)],
                 [NoCall EXCEPT !.op = "generate_summary", !.arg = model_id,
                                !.collaborator = "raised",
                                !.error_text = error_text, !.invoked = TRUE,
                                !.outcome = "returned", !.result = summary])

GenerateSummary ==
    \E model_id \in ModelIds :
        \/ GenerateSummaryNotFound(model_id)
        \/ GenerateSummaryComputed(model_id)
        \/ \E error_text \in ErrorTexts : GenerateSummaryFailed(model_id, error_text)

RemoveModel ==
    \E model_id \in ModelIds :
        Finish(remove_model(Session, model_id),
               [NoCall EXCEPT !.op = "remove_model", !.arg = model_id,
                              !.outcome = "returned"])

CleanupOldModels ==
    Finish(cleanup_old_models(Session, max_models),
           [NoCall EXCEPT !.op = "cleanup_old_models", !.outcome = "returned",
                          !.held = load_times])

SessionInit ==
    /\ max_models \in 0..MaxCap
    /\ models = <<>>
    /\ summaries = << >>
    /\ load_times = <<>>
    /\ call = [NoCall EXCEPT !.kept = [models |-> TRUE, summaries |-> TRUE,
                                       load_times |-> TRUE]]

SessionNext ==
    \/ LoadModel
    \/ GenerateSummary
    \/ RemoveModel
    \/ CleanupOldModels

-----------------------------------------------------------------------------
(* Session cache: properties *)

SessionCall(op) == call.op = op /\ call.outcome = "returned"

\* the entries a cleanup removed: held when it started, absent when it ended
Removed == {e \in Range(call.held) : ~DictHas(load_times, e.k)}

\* C3: with max_models = N, for every N >= 0, at most N models are stored
\* whenever load_model has returned, and a cleanup_old_models that started
\* with more than N entries ends with exactly N.
C3_CapacityBound ==
    /\ SessionCall("load_model") => Len(models) <= max_models
    /\ (SessionCall("load_model") \/ SessionCall("cleanup_old_models"))
         /\ Len(call.held) > max_models
       => Len(models) = max_models

\* C4: every entry a cleanup removes has a load time <= the load time of
\* every entry it retains; with max_models = 2 and m0, m1, m2 held with load
\* times 0, 1, 2 the session retains exactly m1 and m2.
C4_EvictionOrder ==
    (SessionCall("load_model") \/ SessionCall("cleanup_old_models")) =>
        /\ \A e \in Removed : \A r \in Range(load_times) : e.v <= r.v
        /\ ( /\ max_models = 2
             /\ Range(call.held) = {[k |-> "m0", v |-> 0], [k |-> "m1", v |-> 1],
                                    [k |-> "m2", v |-> 2]} )
           => /\ DictKeys(models) = {"m1", "m2"}
              /\ DictKeys(load_times) = {"m1", "m2"}
              /\ ~has_model("m0")

C4_Witness ==
    /\ SessionCall("load_model")
    /\ max_models = 2
    /\ Range(call.held) = {[k |-> "m0", v |-> 0], [k |-> "m1", v |-> 1],
                           [k |-> "m2", v |-> 2]}
    /\ Removed = {[k |-> "m0", v |-> 0]}

\* C6: once generate_summary(m) has cached a placeholder, a later
\* generate_summary(m) returns that cached placeholder and does not invoke
\* the summarizer again (m still stored: neither removed nor evicted).
C6_NoReattempt ==
    [][ ( /\ call'.op = "generate_summary"
          /\ call'.arg \in DOMAIN summaries
          /\ summaries[call'.arg].placeholder
          /\ DictHas(models, call'.arg) )
        => ( /\ ~call'.invoked
             /\ call'.result = summaries[call'.arg] ) ]_vars

C8_FailedLoadAtomic ==
    (call.op = "load_model" /\ call.collaborator = "raised") =>
        /\ call.outcome = "raised"
        /\ call.raised = "SessionError"
        /\ call.kept.models
        /\ call.kept.summaries
        /\ call.kept.load_times

C8_Witness ==
    /\ call.op = "load_model"
    /\ call.collaborator = "raised"
    /\ call.raised = "SessionError"
    /\ Len(models) = 2
    /\ DOMAIN summaries # {}
    /\ ~has_model(Stem(call.arg))

\* C9: when load_model returns handle h, max_models >= 1 and load times are
\* non-decreasing (the time of this load is no earlier than any load time
\* held), h is stored under h.model_id with a load-time record, has_model is
\* true and get_model returns h: a load never evicts the entry it loaded.
C9_LoadVisible ==
    ( /\ SessionCall("load_model")
      /\ max_models >= 1
      /\ \A e \in Range(call.held) : e.v <= call.t )
    => /\ has_model(call.result.model_id)
       /\ get_model(call.result.model_id) = call.result
       /\ DictHas(load_times, call.result.model_id)
       /\ DictGet(load_times, call.result.model_id) = call.t

\* a load that evicted another entry whose load time ties with its own
C9_Witness ==
    /\ SessionCall("load_model")
    /\ max_models >= 1
    /\ \A e \in Range(call.held) : e.v <= call.t
    /\ \E e \in Removed : e.v = call.t
    /\ get_model(call.result.model_id) = call.result

\* the entry of an id in a dict given as its items, None when absent
EntryOf(d, key) == IF DictHas(d, key) THEN DictGet(d, key) ELSE PyNone

\* the summary cached for an id, None when absent
SummaryOf(m, key) == IF key \in DOMAIN m THEN m[key] ELSE PyNone

\* C21: remove_model(m) returns with m absent from the stored models, the
\* cached summaries and the load times, with the entries of every other id
\* unchanged; when m was absent everywhere nothing changes.
C21_RemoveModelFrame ==
    [][call'.op = "remove_model" =>
          LET m == call'.arg
          IN /\ call'.outcome = "returned"
             /\ call'.raised = ""
             /\ ~DictHas(models', m)
             /\ m \notin DOMAIN summaries'
             /\ ~DictHas(load_times', m)
             /\ \A id \in ModelIds \ {m} :
                   /\ EntryOf(models', id) = EntryOf(models, id)
                   /\ SummaryOf(summaries', id) = SummaryOf(summaries, id)
                   /\ EntryOf(load_times', id) = EntryOf(load_times, id)
             /\ (~DictHas(models, m) /\ m \notin DOMAIN summaries
                   /\ ~DictHas(load_times, m)) =>
                   (models' = models /\ summaries' = summaries
                      /\ load_times' = load_times)]_vars

\* remove_model took a model and its cached summary away while another
\* model and its summary stay
C21_Witness ==
    /\ SessionCall("remove_model")
    /\ ~call.kept.models
    /\ ~call.kept.summaries
    /\ ~call.kept.load_times
    /\ Len(models) >= 1
    /\ DOMAIN summaries # {}

\* C22: generate_summary(m) for an id m that is not stored raises
\* SessionError, does not invoke the summarizer and leaves the stored models,
\* the cached summaries and the load times as they were.
C22_SummaryOfAbsentModel ==
    [][(call'.op = "generate_summary" /\ ~DictHas(models, call'.arg)) =>
          /\ call'.outcome = "raised"
          /\ call'.raised = "SessionError"
          /\ ~call'.invoked
          /\ models' = models
          /\ summaries' = summaries
          /\ load_times' = load_times]_vars

\* generate_summary of an absent id raised while another model and a cached
\* summary are held
C22_Witness ==
    /\ call.op = "generate_summary"
    /\ call.outcome = "raised"
    /\ call.raised = "SessionError"
    /\ ~DictHas(models, call.arg)
    /\ Len(models) >= 1
    /\ DOMAIN summaries # {}

-----------------------------------------------------------------------------
(* Python str ordering: by code point, a proper prefix first *)

\* the characters the model's strings use, in code point order
Alphabet == " -.0123456789:ABCDEFGHIJKLMNOPQRSTUVWXYZ_abcdefghijklmnopqrstuvwxyz"

Code(c) == CHOOSE i \in 1..Len(Alphabet) : SubSeq(Alphabet, i, i) = c

RECURSIVE StrLess(_, _)
StrLess(a, b) ==
    IF b = "" THEN FALSE
    ELSE IF a = "" THEN TRUE
    ELSE LET ca == Code(SubSeq(a, 1, 1))
             cb == Code(SubSeq(b, 1, 1))
         IN IF ca # cb THEN ca < cb
            ELSE StrLess(SubSeq(a, 2, Len(a)), SubSeq(b, 2, Len(b)))

\* s[:n] of a str
StrPrefix(s, n) == SubSeq(s, 1, IF n < Len(s) THEN n ELSE Len(s))

-----------------------------------------------------------------------------
(* JSON-like values: a tagged union; a dict is its items in insertion order *)

Str(s) == [t |-> "str", s |-> s]
Num(n) == [t |-> "num", n |-> n]
Dict(items) == [t |-> "dict", items |-> items]
List(elems) == [t |-> "list", elems |-> elems]

-----------------------------------------------------------------------------
(* stepgraph_ir.schema *)

SCHEMA_VERSION == "0.1.0"

ContainerTypes == {"Assembly", "Part", "Product"}

\* the EdgeType literals
EdgeTypes ==
    {"contains", "part_of", "instance_of",
     "bounded_by", "adjacent_to", "shares_edge", "shares_vertex",
     "has_pmi", "has_material", "has_tolerance", "references",
     "measured_in", "coordinate_system"}

\* a mutant of Node: the placeholder name is made from the id as given
Node_name_from_given_id(id, type, attrs, fresh) ==
    LET nid == IF id = "" THEN fresh ELSE id
        named == IF type \in ContainerTypes /\ ~DictHas(attrs, "name")
                 THEN DictSet(attrs, "name",
                              Str("Unnamed_" \o type \o "_" \o StrPrefix(id, 8)))
                 ELSE attrs
    IN [id |-> nid, type |-> type, attrs |-> named]

\* Node(id, type, attrs) after __post_init__; fresh is what uuid.uuid4() yields
Node(id, type, attrs, fresh) ==
    LET nid == IF id = "" THEN fresh ELSE id
        named == IF type \in ContainerTypes /\ ~DictHas(attrs, "name")
                 THEN DictSet(attrs, "name",
                              Str("Unnamed_" \o type \o "_" \o StrPrefix(nid, 8)))
                 ELSE attrs
    IN [id |-> nid, type |-> type, attrs |-> named]

\* a mutant of Edge: a self-loop passes for the symmetric relationship types
Edge_symmetric_self_loop(src, dst, type, attrs) ==
    IF src = "" \/ dst = ""
    THEN [outcome |-> "raised", raised |-> "ValueError",
          message |-> "Edge source and destination cannot be empty"]
    ELSE IF src = dst /\ type \notin {"adjacent_to", "shares_edge", "shares_vertex"}
    THEN [outcome |-> "raised", raised |-> "ValueError",
          message |-> "Self-loops are not allowed in STEPGraph-IR"]
    ELSE [outcome |-> "returned",
          edge |-> [src |-> src, dst |-> dst, type |-> type, attrs |-> attrs]]

\* Edge(src, dst, type, attrs): __post_init__ raises ValueError or leaves the edge
Edge(src, dst, type, attrs) ==
    IF src = "" \/ dst = ""
    THEN [outcome |-> "raised", raised |-> "ValueError",
          message |-> "Edge source and destination cannot be empty"]
    ELSE IF src = dst
    THEN [outcome |-> "raised", raised |-> "ValueError",
          message |-> "Self-loops are not allowed in STEPGraph-IR"]
    ELSE [outcome |-> "returned",
          edge |-> [src |-> src, dst |-> dst, type |-> type, attrs |-> attrs]]

\* a mutant of is_valid: a warning makes the IR invalid too
is_valid_without_warnings(validation) ==
    Len(validation.errors) = 0 /\ Len(validation.warnings) = 0

\* ValidationInfo.is_valid
is_valid(validation) == Len(validation.errors) = 0

NodeIdsOf(nodes) == {nodes[i].id : i \in 1..Len(nodes)}

\* the loop of IR._validate over the edges: the errors it appends, in order
RECURSIVE EdgeReferenceErrors(_, _)
EdgeReferenceErrors(edges, node_ids) ==
    IF edges = <<>> THEN <<>>
    ELSE LET edge == Head(edges)
             src_error == IF edge.src \notin node_ids
                          THEN <<"Edge references unknown source node: " \o edge.src>>
                          ELSE <<>>
             dst_error == IF edge.dst \notin node_ids
                          THEN <<"Edge references unknown destination node: " \o edge.dst>>
                          ELSE <<>>
         IN src_error \o dst_error \o EdgeReferenceErrors(Tail(edges), node_ids)

\* a mutant of Validate: only the first edge's references are checked
Validate_first_edge_only(nodes, edges, errors) ==
    LET node_ids == NodeIdsOf(nodes)
        duplicate == IF Cardinality(node_ids) # Len(nodes)
                     THEN <<"Duplicate node IDs found">>
                     ELSE <<>>
    IN errors \o duplicate
         \o EdgeReferenceErrors(SubSeq(edges, 1, IF Len(edges) > 0 THEN 1 ELSE 0),
                                node_ids)

\* IR._validate: the errors list after it ran
Validate(nodes, edges, errors) ==
    LET node_ids == NodeIdsOf(nodes)
        duplicate == IF Cardinality(node_ids) # Len(nodes)
                     THEN <<"Duplicate node IDs found">>
                     ELSE <<>>
    IN errors \o duplicate \o EdgeReferenceErrors(edges, node_ids)

\* a mutant of IR: the counts stay as the ValidationInfo was given
IR_counts_as_given(a) ==
    [model_id |-> a.model_id,
     nodes |-> a.nodes,
     edges |-> a.edges,
     units |-> a.units,
     provenance |-> a.provenance,
     validation |-> [a.validation EXCEPT
                       !.errors = Validate(a.nodes, a.edges, a.validation.errors)],
     bounding_box |-> a.bounding_box]

\* IR(model_id, nodes, edges, units, provenance, validation, bounding_box)
\* after __post_init__
IR(a) ==
    [model_id |-> a.model_id,
     nodes |-> a.nodes,
     edges |-> a.edges,
     units |-> a.units,
     provenance |-> a.provenance,
     validation |-> [a.validation EXCEPT
                       !.node_count = Len(a.nodes),
                       !.edge_count = Len(a.edges),
                       !.errors = Validate(a.nodes, a.edges, a.validation.errors)],
     bounding_box |-> a.bounding_box]

\* a mutant of add_node: the node is appended before the duplicate is reported
add_node_early_append(g, node) ==
    IF \E i \in 1..Len(g.nodes) : g.nodes[i].id = node.id
    THEN [outcome |-> "raised", raised |-> "ValueError",
          message |-> "Node with ID " \o node.id \o " already exists",
          ir |-> [g EXCEPT !.nodes = Append(@, node)]]
    ELSE [outcome |-> "returned", raised |-> "", message |-> "",
          ir |-> [g EXCEPT !.nodes = Append(@, node),
                           !.validation.node_count = Len(g.nodes) + 1]]

\* IR.add_node on an IR value: the outcome and the IR it leaves
add_node(g, node) ==
    IF \E i \in 1..Len(g.nodes) : g.nodes[i].id = node.id
    THEN [outcome |-> "raised", raised |-> "ValueError",
          message |-> "Node with ID " \o node.id \o " already exists", ir |-> g]
    ELSE [outcome |-> "returned", raised |-> "", message |-> "",
          ir |-> [g EXCEPT !.nodes = Append(@, node),
                           !.validation.node_count = Len(g.nodes) + 1]]

\* a mutant of add_edge: the edge is appended before the destination is checked
add_edge_early_append(g, edge) ==
    IF edge.src \notin NodeIdsOf(g.nodes)
    THEN [outcome |-> "raised", raised |-> "ValueError",
          message |-> "Source node " \o edge.src \o " does not exist", ir |-> g]
    ELSE IF edge.dst \notin NodeIdsOf(g.nodes)
    THEN [outcome |-> "raised", raised |-> "ValueError",
          message |-> "Destination node " \o edge.dst \o " does not exist",
          ir |-> [g EXCEPT !.edges = Append(@, edge)]]
    ELSE [outcome |-> "returned", raised |-> "", message |-> "",
          ir |-> [g EXCEPT !.edges = Append(@, edge),
                           !.validation.edge_count = Len(g.edges) + 1]]

\* a mutant of add_edge: only the source is looked up
add_edge_checks_source_only(g, edge) ==
    IF edge.src \notin NodeIdsOf(g.nodes)
    THEN [outcome |-> "raised", raised |-> "ValueError",
          message |-> "Source node " \o edge.src \o " does not exist", ir |-> g]
    ELSE [outcome |-> "returned", raised |-> "", message |-> "",
          ir |-> [g EXCEPT !.edges = Append(@, edge),
                           !.validation.edge_count = Len(g.edges) + 1]]

\* IR.add_edge on an IR value: the outcome and the IR it leaves
add_edge(g, edge) ==
    IF edge.src \notin NodeIdsOf(g.nodes)
    THEN [outcome |-> "raised", raised |-> "ValueError",
          message |-> "Source node " \o edge.src \o " does not exist", ir |-> g]
    ELSE IF edge.dst \notin NodeIdsOf(g.nodes)
    THEN [outcome |-> "raised", raised |-> "ValueError",
          message |-> "Destination node " \o edge.dst \o " does not exist", ir |-> g]
    ELSE [outcome |-> "returned", raised |-> "", message |-> "",
          ir |-> [g EXCEPT !.edges = Append(@, edge),
                           !.validation.edge_count = Len(g.edges) + 1]]

-----------------------------------------------------------------------------
(* stepgraph_ir.serialize: canonical order *)

RECURSIVE InsertItem(_, _)
InsertItem(s, e) ==
    IF s = <<>> THEN <<e>>
    ELSE IF StrLess(e.k, Head(s).k) THEN <<e>> \o s
    ELSE <<Head(s)>> \o InsertItem(Tail(s), e)

\* sorted(obj.items()): the items of a dict by key (keys are distinct)
RECURSIVE SortedItems(_)
SortedItems(items) ==
    IF items = <<>> THEN <<>>
    ELSE InsertItem(SortedItems(SubSeq(items, 1, Len(items) - 1)), items[Len(items)])

\* _sort_dict_recursive on a value; SortDict is the same on a dict given as
\* its items
RECURSIVE SortValue(_)
SortValue(v) ==
    CASE v.t = "dict" ->
           LET sorted == SortedItems(v.items)
           IN Dict([i \in 1..Len(sorted) |->
                      [k |-> sorted[i].k, v |-> SortValue(sorted[i].v)]])
      [] v.t = "list" -> List([i \in 1..Len(v.elems) |-> SortValue(v.elems[i])])
      [] OTHER -> v

SortDict(items) == SortValue(Dict(items)).items

\* the type_priority table of _node_sort_key
TypePriority(type) ==
    CASE type = "Assembly" -> 0
      [] type = "Part" -> 1
      [] type = "Product" -> 2
      [] type = "ManifoldSolidBrep" -> 10
      [] type = "AdvancedFace" -> 11
      [] type = "EdgeCurve" -> 12
      [] type = "VertexPoint" -> 13
      [] type = "Unit" -> 20
      [] type = "CoordinateSystem" -> 21
      [] type = "PMI_Entity" -> 30
      [] type = "GeometricTolerance" -> 31
      [] type = "DimensioningTolerance" -> 32
      [] type = "ValidationProperty" -> 40
      [] type = "MaterialProperty" -> 41
      [] type = "SurfaceFinish" -> 42
      [] OTHER -> 999

\* a mutant of node_sort_key: the type has no part in the order
node_sort_key_id_only(node) == <<0, node.id>>

\* _node_sort_key
node_sort_key(node) == <<TypePriority(node.type), node.id>>

\* _edge_sort_key
edge_sort_key(edge) == <<edge.src, edge.dst, edge.type>>

\* tuple comparison of two node keys
NodeKeyLess(a, b) == a[1] < b[1] \/ (a[1] = b[1] /\ StrLess(a[2], b[2]))

\* tuple comparison of two edge keys
EdgeKeyLess(a, b) ==
    \/ StrLess(a[1], b[1])
    \/ a[1] = b[1] /\ StrLess(a[2], b[2])
    \/ a[1] = b[1] /\ a[2] = b[2] /\ StrLess(a[3], b[3])

RECURSIVE InsertNode(_, _)
InsertNode(s, e) ==
    IF s = <<>> THEN <<e>>
    ELSE IF NodeKeyLess(node_sort_key(e), node_sort_key(Head(s))) THEN <<e>> \o s
    ELSE <<Head(s)>> \o InsertNode(Tail(s), e)

\* sorted(nodes, key=_node_sort_key): stable
RECURSIVE SortedNodes(_)
SortedNodes(nodes) ==
    IF nodes = <<>> THEN <<>>
    ELSE InsertNode(SortedNodes(SubSeq(nodes, 1, Len(nodes) - 1)), nodes[Len(nodes)])

RECURSIVE InsertEdge(_, _)
InsertEdge(s, e) ==
    IF s = <<>> THEN <<e>>
    ELSE IF EdgeKeyLess(edge_sort_key(e), edge_sort_key(Head(s))) THEN <<e>> \o s
    ELSE <<Head(s)>> \o InsertEdge(Tail(s), e)

\* sorted(edges, key=_edge_sort_key): stable
RECURSIVE SortedEdges(_)
SortedEdges(edges) ==
    IF edges = <<>> THEN <<>>
    ELSE InsertEdge(SortedEdges(SubSeq(edges, 1, Len(edges) - 1)), edges[Len(edges)])

-----------------------------------------------------------------------------
(* stepgraph_ir.serialize: encode and decode *)

\* a mutant of to_json_dict: the attrs are sorted in both modes
to_json_dict_sorted_attrs(g, deterministic) ==
    LET nodes == IF deterministic THEN SortedNodes(g.nodes) ELSE g.nodes
        edges == IF deterministic THEN SortedEdges(g.edges) ELSE g.edges
        canon(d) == IF deterministic THEN SortDict(d) ELSE d
    IN [schema_version |-> g.validation.schema_version,
        model_id |-> g.model_id,
        validation |-> [created_at |-> g.validation.created_at,
                        node_count |-> g.validation.node_count,
                        edge_count |-> g.validation.edge_count,
                        is_valid |-> is_valid(g.validation),
                        warnings |-> g.validation.warnings,
                        errors |-> g.validation.errors],
        units |-> canon(g.units),
        nodes |-> [i \in 1..Len(nodes) |->
                     [id |-> nodes[i].id, type |-> nodes[i].type,
                      attrs |-> SortDict(nodes[i].attrs)]],
        edges |-> [i \in 1..Len(edges) |->
                     [src |-> edges[i].src, dst |-> edges[i].dst,
                      type |-> edges[i].type, attrs |-> SortDict(edges[i].attrs)]],
        provenance |-> canon(g.provenance)]

\* to_json_dict: the JSON object written as one line. Its top-level keys and
\* their order are fixed by the code, so the object is a record; every dict
\* the IR carries keeps its items in order.
to_json_dict(g, deterministic) ==
    LET nodes == IF deterministic THEN SortedNodes(g.nodes) ELSE g.nodes
        edges == IF deterministic THEN SortedEdges(g.edges) ELSE g.edges
        canon(d) == IF deterministic THEN SortDict(d) ELSE d
        result ==
          [schema_version |-> g.validation.schema_version,
           model_id |-> g.model_id,
           validation |-> [created_at |-> g.validation.created_at,
                           node_count |-> g.validation.node_count,
                           edge_count |-> g.validation.edge_count,
                           is_valid |-> is_valid(g.validation),
                           warnings |-> g.validation.warnings,
                           errors |-> g.validation.errors],
           units |-> canon(g.units),
           nodes |-> [i \in 1..Len(nodes) |->
                        [id |-> nodes[i].id, type |-> nodes[i].type,
                         attrs |-> canon(nodes[i].attrs)]],
           edges |-> [i \in 1..Len(edges) |->
                        [src |-> edges[i].src, dst |-> edges[i].dst,
                         type |-> edges[i].type, attrs |-> canon(edges[i].attrs)]],
           provenance |-> canon(g.provenance)]
    IN IF g.bounding_box # PyNone
       THEN result @@ [bounding_box |-> [min_x |-> g.bounding_box.min_x,
                                         min_y |-> g.bounding_box.min_y,
                                         min_z |-> g.bounding_box.min_z,
                                         max_x |-> g.bounding_box.max_x,
                                         max_y |-> g.bounding_box.max_y,
                                         max_z |-> g.bounding_box.max_z]]
       ELSE result

\* dict.get(key, default) on a JSON object
Get(obj, key, default) == IF key \in DOMAIN obj THEN obj[key] ELSE default

KeyError(key) == [outcome |-> "raised", raised |-> "KeyError", message |-> key]

Returned == [outcome |-> "returned"]

\* the first of the outcomes that raised, or Returned
RECURSIVE FirstRaised(_)
FirstRaised(outcomes) ==
    IF outcomes = <<>> THEN Returned
    ELSE IF Head(outcomes).outcome = "raised" THEN Head(outcomes)
    ELSE FirstRaised(Tail(outcomes))

\* Node(id=node_data["id"], type=node_data["type"], attrs=node_data.get("attrs", {}))
DecodeNode(node_data, fresh) ==
    IF "id" \notin DOMAIN node_data THEN KeyError("id")
    ELSE IF "type" \notin DOMAIN node_data THEN KeyError("type")
    ELSE [outcome |-> "returned",
          node |-> Node(node_data.id, node_data.type, Get(node_data, "attrs", <<>>),
                        fresh)]

\* Edge(src=edge_data["src"], dst=edge_data["dst"], type=edge_data["type"],
\*      attrs=edge_data.get("attrs", {}))
DecodeEdge(edge_data) ==
    IF "src" \notin DOMAIN edge_data THEN KeyError("src")
    ELSE IF "dst" \notin DOMAIN edge_data THEN KeyError("dst")
    ELSE IF "type" \notin DOMAIN edge_data THEN KeyError("type")
    ELSE Edge(edge_data.src, edge_data.dst, edge_data.type,
              Get(edge_data, "attrs", <<>>))

BoxKeys == <<"min_x", "min_y", "min_z", "max_x", "max_y", "max_z">>

\* BoundingBox(min_x=bbox_data["min_x"], ...) when the record has a bounding_box
DecodeBox(data) ==
    IF "bounding_box" \notin DOMAIN data THEN [outcome |-> "returned", box |-> PyNone]
    ELSE LET missing == {i \in 1..Len(BoxKeys) : BoxKeys[i] \notin DOMAIN data.bounding_box}
         IN IF missing # {}
            THEN KeyError(BoxKeys[CHOOSE i \in missing : \A j \in missing : i <= j])
            ELSE [outcome |-> "returned",
                  box |-> [min_x |-> data.bounding_box.min_x,
                           min_y |-> data.bounding_box.min_y,
                           min_z |-> data.bounding_box.min_z,
                           max_x |-> data.bounding_box.max_x,
                           max_y |-> data.bounding_box.max_y,
                           max_z |-> data.bounding_box.max_z]]

DefaultUnits == <<[k |-> "length", v |-> Str("mm")], [k |-> "angle", v |-> Str("deg")]>>

\* _dict_to_ir: the IR, or the exception that ends it; fresh[i] is what
\* uuid.uuid4() yields for the i-th node
dict_to_ir(data, fresh) ==
    LET val_data == Get(data, "validation", <<>>)
        validation ==
          [schema_version |-> Get(val_data, "schema_version", "0.1.0"),
           created_at |-> Get(val_data, "created_at", ""),
           node_count |-> Get(val_data, "node_count", 0),
           edge_count |-> Get(val_data, "edge_count", 0),
           warnings |-> Get(val_data, "warnings", <<>>),
           errors |-> Get(val_data, "errors", <<>>)]
        nodes_data == Get(data, "nodes", <<>>)
        edges_data == Get(data, "edges", <<>>)
        nodes == [i \in 1..Len(nodes_data) |-> DecodeNode(nodes_data[i], fresh[i])]
        edges == [i \in 1..Len(edges_data) |-> DecodeEdge(edges_data[i])]
        bbox == DecodeBox(data)
        model_id == IF "model_id" \in DOMAIN data THEN Returned ELSE KeyError("model_id")
        failed == FirstRaised(nodes \o edges \o <<bbox, model_id>>)
    IN IF failed.outcome = "raised" THEN failed
       ELSE [outcome |-> "returned",
             ir |-> IR([model_id |-> data.model_id,
                        nodes |-> [i \in 1..Len(nodes) |-> nodes[i].node],
                        edges |-> [i \in 1..Len(edges) |-> edges[i].edge],
                        units |-> Get(data, "units", DefaultUnits),
                        provenance |-> Get(data, "provenance", <<>>),
                        validation |-> validation,
                        bounding_box |-> bbox.box])]

\* load_jsonl on the record at line line_num: ValueError is re-raised with the
\* line number, any other exception leaves the generator as it is
load_jsonl(data, line_num, fresh) ==
    LET r == dict_to_ir(data, fresh)
    IN IF r.outcome = "raised" /\ r.raised = "ValueError"
       THEN [r EXCEPT !.message = "Failed to parse line " \o ToString(line_num)
                                  \o ": " \o r.message]
       ELSE r

-----------------------------------------------------------------------------
(* Inputs *)

MaxNodes == 2        \* node lists given to IR(...) hold at most MaxNodes nodes
MaxEdges == 2        \* edge lists hold at most MaxEdges edges
MaxRoundTrips == 2   \* at most MaxRoundTrips load_jsonl calls in a run

SeqsUpTo(S, n) == UNION {[1..m -> S] : m \in 0..n}

\* the lists of at most n elements of S that hold no element twice
ListsUpTo(S, n) ==
    {s \in SeqsUpTo(S, n) : \A i, j \in 1..Len(s) : i # j => s[i] # s[j]}

\* the nodes and edges of test_deterministic_sorting; the third edge has the
\* sort key of the second and other attrs
NodePool ==
    {Node("zzz", "Part", <<>>, ""),
     Node("aaa", "Assembly", <<>>, ""),
     Node("mmm", "AdvancedFace",
          <<[k |-> "surface", v |-> Str("plane")], [k |-> "area", v |-> Num(2)]>>, "")}

EdgePool ==
    {Edge("zzz", "aaa", "contains", <<>>).edge,
     Edge("aaa", "mmm", "bounded_by", <<>>).edge,
     Edge("aaa", "mmm", "bounded_by", <<[k |-> "weight", v |-> Num(1)]>>).edge}

\* ValidationInfo(): the defaults, and one given a schema_version and the
\* warnings and errors of test_roundtrip_with_validation_info
ValidationInputs ==
    {[schema_version |-> SCHEMA_VERSION, created_at |-> "2024-01-01T00:00:00",
      node_count |-> 0, edge_count |-> 0, warnings |-> <<>>, errors |-> <<>>],
     [schema_version |-> "0.2.0", created_at |-> "2024-01-01T00:00:00",
      node_count |-> 0, edge_count |-> 0, warnings |-> <<"Test warning">>,
      errors |-> <<"Test error">>]}

ProvenanceInputs ==
    {<<>>,
     <<[k |-> "phase", v |-> Str("0")],
       [k |-> "generator", v |-> Dict(<<[k |-> "name", v |-> Str("ShapeBridge")],
                                        [k |-> "build", v |-> List(<<Num(1)>>)]>>)]>>}

\* arguments of IR(...) for the graph operations
GraphArgs ==
    [model_id : {"test_model"},
     nodes : SeqsUpTo(NodePool, MaxNodes),
     edges : SeqsUpTo(EdgePool, MaxEdges),
     units : {DefaultUnits},
     provenance : {<<>>},
     validation : {v \in ValidationInputs : v.errors = <<>>},
     bounding_box : {PyNone}]

\* arguments of IR(...) for the codec: the defaults, or a caller-given
\* validation with a nested provenance
CodecArgs ==
    {a \in [model_id : {"test_model"},
            nodes : ListsUpTo(NodePool, MaxNodes),
            edges : ListsUpTo(EdgePool, MaxEdges),
            units : {DefaultUnits},
            provenance : ProvenanceInputs,
            validation : ValidationInputs,
            bounding_box : {PyNone}] :
        (a.provenance = <<>>) <=> (a.validation.schema_version = SCHEMA_VERSION)}

\* the lists that are s in another order
Reorderings(s) ==
    {[i \in 1..Len(s) |-> s[f[i]]] :
        f \in {g \in [1..Len(s) -> 1..Len(s)] :
                 \A i, j \in 1..Len(s) : i # j => g[i] # g[j]}}

\* node and edge objects as a file may hold them, well-formed or not
RawNodePool ==
    {[id |-> "n1", type |-> "Part", attrs |-> <<[k |-> "name", v |-> Str("p")]>>],
     [id |-> "n2", type |-> "AdvancedFace", attrs |-> <<>>]}

RawEdgePool ==
    {[src |-> "n1", dst |-> "n2", type |-> "contains", attrs |-> <<>>],
     [src |-> "n1", dst |-> "n1", type |-> "adjacent_to", attrs |-> <<>>],
     [src |-> "", dst |-> "n2", type |-> "contains", attrs |-> <<>>],
     [src |-> "n1", dst |-> "ghost", type |-> "contains", attrs |-> <<>>]}

\* records a JSONL file may hold
PersistedRecords ==
    {[schema_version |-> SCHEMA_VERSION,
      model_id |-> "persisted",
      validation |-> [created_at |-> "2024-01-01T00:00:00", node_count |-> Len(ns),
                      edge_count |-> Len(es), is_valid |-> TRUE,
                      warnings |-> <<>>, errors |-> <<>>],
      units |-> SortDict(DefaultUnits),
      nodes |-> ns,
      edges |-> es,
      provenance |-> <<>>] :
        ns \in SeqsUpTo(RawNodePool, MaxNodes), es \in SeqsUpTo(RawEdgePool, MaxEdges)}

\* what uuid.uuid4() may yield for the nodes of a record
FreshIds(data) ==
    LET n == Len(Get(data, "nodes", <<>>))
    IN IF \E i \in 1..n : Get(data.nodes[i], "id", "x") = ""
       THEN {f \in [1..n -> {"u1", "u2"}] : \A i, j \in 1..n : i # j => f[i] # f[j]}
       ELSE {[i \in 1..n |-> "u1"]}

-----------------------------------------------------------------------------
(* Graph operations on the IR *)

AddNode ==
    \E node \in NodePool :
        LET r == add_node(ir, node)
        IN /\ ir' = r.ir
           /\ step' = [op |-> "add_node", arg |-> node, outcome |-> r.outcome,
                       raised |-> r.raised, message |-> r.message, before |-> ir]
           /\ UNCHANGED <<args, wire, sessionVars>>

AddEdge ==
    \E edge \in EdgePool :
        LET r == add_edge(ir, edge)
        IN /\ r.outcome = "returned" => Len(ir.edges) < MaxEdges
           /\ ir' = r.ir
           /\ step' = [op |-> "add_edge", arg |-> edge, outcome |-> r.outcome,
                       raised |-> r.raised, message |-> r.message, before |-> ir]
           /\ UNCHANGED <<args, wire, sessionVars>>

SessionIdle ==
    /\ max_models = 0
    /\ models = <<>>
    /\ summaries = << >>
    /\ load_times = <<>>
    /\ call = NoCall

\* an IR constructed from its arguments
GraphInit ==
    /\ SessionIdle
    /\ args \in GraphArgs
    /\ ir = IR(args)
    /\ wire = PyNone
    /\ step = [op |-> "IR", outcome |-> "returned"]

GraphNext == AddNode \/ AddEdge

SpecGraph == GraphInit /\ [][GraphNext]_vars

\* endpoints given to Edge(...): empty or a node id
EndpointInputs == {"", "n1", "n2"}

\* Edge(src, dst, type): the object, or the exception of __post_init__
NewEdge ==
    /\ \E src \in EndpointInputs, dst \in EndpointInputs, type \in EdgeTypes :
          LET r == Edge(src, dst, type, <<>>)
          IN step' = [op |-> "Edge",
                      arg |-> [src |-> src, dst |-> dst, type |-> type],
                      outcome |-> r.outcome,
                      raised |-> IF r.outcome = "raised" THEN r.raised ELSE "",
                      message |-> IF r.outcome = "raised" THEN r.message ELSE "",
                      result |-> IF r.outcome = "returned" THEN r.edge ELSE PyNone]
    /\ UNCHANGED <<args, ir, wire, sessionVars>>

\* ids given to Node(...): empty, shorter and longer than 8 characters
NodeIdInputs == {"", "n1", "test_identifier"}

NodeTypeInputs == {"Assembly", "Part", "Product", "AdvancedFace", "Unit"}

NodeAttrInputs ==
    {<<>>,
     <<[k |-> "name", v |-> Str("Test Part")]>>,
     <<[k |-> "name", v |-> Str("")]>>,
     <<[k |-> "area", v |-> Num(2)]>>}

\* what str(uuid.uuid4()) may yield
UuidInputs ==
    {"3f2a9c1e-5b7d-4e8a-9c0b-1d2e3f4a5b6c", "3f2a9c1f-0000-4000-8000-000000000000"}

\* Node(id, type, attrs): the object __post_init__ leaves
NewNode ==
    /\ \E id \in NodeIdInputs, type \in NodeTypeInputs, attrs \in NodeAttrInputs,
          fresh \in UuidInputs :
          step' = [op |-> "Node",
                   arg |-> [id |-> id, type |-> type, attrs |-> attrs],
                   outcome |-> "returned", raised |-> "", message |-> "",
                   result |-> Node(id, type, attrs, fresh)]
    /\ UNCHANGED <<args, ir, wire, sessionVars>>

\* BoundingBox.center; the coordinates are multiples of ten, so / 2 is exact
center(box) ==
    <<(box.min_x + box.max_x) \div 2,
      (box.min_y + box.max_y) \div 2,
      (box.min_z + box.min_z) \div 2>>

\* coordinates of test_bounding_box_center
Coordinates == {0, 10, 30}

\* BoundingBox(...).center
ReadCenter ==
    /\ \E box \in [min_x : Coordinates, min_y : Coordinates, min_z : Coordinates,
                    max_x : Coordinates, max_y : Coordinates, max_z : Coordinates] :
          step' = [op |-> "center", arg |-> box, outcome |-> "returned",
                   raised |-> "", message |-> "", result |-> center(box)]
    /\ UNCHANGED <<args, ir, wire, sessionVars>>

SchemaInit ==
    /\ SessionIdle
    /\ args = PyNone
    /\ ir = PyNone
    /\ wire = PyNone
    /\ step = [op |-> "none"]

SchemaNext == NewEdge \/ NewNode \/ ReadCenter

SpecSchema == SchemaInit /\ [][SchemaNext]_vars

-----------------------------------------------------------------------------
(* Codec operations *)

\* dump_jsonl(ir, path): the line written, in deterministic mode
DumpJsonl ==
    /\ ir # PyNone
    /\ wire' = to_json_dict(ir, TRUE)
    /\ step' = [step EXCEPT !.op = "dump_jsonl", !.outcome = "returned",
                            !.prev = wire]
    /\ UNCHANGED <<args, ir, sessionVars>>

\* next(load_jsonl(path)) on a file holding the record as its first line
LoadJsonl ==
    /\ wire # PyNone
    /\ step.loads < MaxRoundTrips
    /\ \E fresh \in FreshIds(wire) :
          LET r == load_jsonl(wire, 1, fresh)
          IN /\ ir' = IF r.outcome = "returned" THEN r.ir ELSE ir
             /\ step' = [op |-> "load_jsonl", outcome |-> r.outcome,
                         raised |-> IF r.outcome = "raised" THEN r.raised ELSE "",
                         message |-> IF r.outcome = "raised" THEN r.message ELSE "",
                         origin |-> IF r.outcome = "returned" THEN "decoded"
                                    ELSE step.origin,
                         prev |-> step.prev,
                         loads |-> step.loads + 1]
    /\ UNCHANGED <<args, wire, sessionVars>>

\* IR(...) once more, from the same model_id, units, provenance and validation
\* and the same nodes and edges in another order, after the first IR was
\* written
Reconstruct ==
    /\ step.op = "dump_jsonl"
    /\ step.origin = "constructed"
    /\ \E nodes \in Reorderings(args.nodes), edges \in Reorderings(args.edges) :
          /\ args' = [args EXCEPT !.nodes = nodes, !.edges = edges]
          /\ ir' = IR(args')
    /\ step' = [step EXCEPT !.op = "IR", !.outcome = "returned",
                            !.origin = "permuted"]
    /\ UNCHANGED <<wire, sessionVars>>

CodecStep(origin) ==
    [op |-> "IR", outcome |-> "returned", raised |-> "", message |-> "",
     origin |-> origin, prev |-> PyNone, loads |-> 0]

CodecInit ==
    /\ SessionIdle
    /\ args \in CodecArgs
    /\ ir = IR(args)
    /\ wire = PyNone
    /\ step = CodecStep("constructed")

CodecNext == DumpJsonl \/ LoadJsonl \/ Reconstruct

SpecCodec == CodecInit /\ [][CodecNext]_vars

\* a JSONL file found on disk
DecodeInit ==
    /\ SessionIdle
    /\ args = PyNone
    /\ ir = PyNone
    /\ wire \in PersistedRecords
    /\ step = CodecStep("none")

DecodeNext == LoadJsonl \/ DumpJsonl

SpecDecode == DecodeInit /\ [][DecodeNext]_vars

-----------------------------------------------------------------------------
(* An IR that carries a bounding box *)

\* a mutant of volume: the z extent read from min_z twice
volume_min_z_twice(box) ==
    (box.max_x - box.min_x) * (box.max_y - box.min_y) * (box.min_z - box.min_z)

\* BoundingBox.volume
volume(box) ==
    (box.max_x - box.min_x) * (box.max_y - box.min_y) * (box.max_z - box.min_z)

\* coordinates of test_bounding_box_volume, and one below zero
BoxCoordinates == {-1, 0, 2, 3, 4}

\* BoundingBox(...): the dataclass checks nothing, so min may exceed max
BoxInputs ==
    [min_x : {-1, 0}, min_y : {0, 3}, min_z : {0, 4},
     max_x : BoxCoordinates \ {-1}, max_y : BoxCoordinates \ {4},
     max_z : BoxCoordinates \ {0}]

\* arguments of IR(...) with and without a bounding box
BoxArgs ==
    [model_id : {"test_model"},
     nodes : {<<>>} \cup {<<n>> : n \in NodePool},
     edges : {<<>>},
     units : {DefaultUnits},
     provenance : {<<>>},
     validation : {v \in ValidationInputs : v.errors = <<>>},
     bounding_box : BoxInputs \cup {PyNone}]

\* ir.bounding_box.volume
ReadVolume ==
    /\ ir # PyNone
    /\ ir.bounding_box # PyNone
    /\ step.op # "volume"
    /\ step' = [op |-> "volume", outcome |-> "returned", arg |-> ir.bounding_box,
                result |-> volume(ir.bounding_box)] @@ step
    /\ UNCHANGED <<args, ir, wire, sessionVars>>

BoxInit ==
    /\ SessionIdle
    /\ args \in BoxArgs
    /\ ir = IR(args)
    /\ wire = PyNone
    /\ step = CodecStep("constructed")

BoxNext == ReadVolume \/ DumpJsonl \/ LoadJsonl

SpecBox == BoxInit /\ [][BoxNext]_vars

-----------------------------------------------------------------------------
(* Graph data model: properties *)

\* C11: add_node(n) raises exactly when a stored node already has id n.id, and
\* then nodes, edges and counts are unchanged; otherwise n is appended at the
\* end and node_count increases by one.
C11_AddNodeStrict ==
    step.op = "add_node" =>
        LET n == step.arg
            before == step.before
        IN IF n.id \in NodeIdsOf(before.nodes)
           THEN /\ step.outcome = "raised"
                /\ step.message = "Node with ID " \o n.id \o " already exists"
                /\ ir.nodes = before.nodes
                /\ ir.edges = before.edges
                /\ ir.validation.node_count = before.validation.node_count
                /\ ir.validation.edge_count = before.validation.edge_count
           ELSE /\ step.outcome = "returned"
                /\ ir.nodes = Append(before.nodes, n)
                /\ ir.validation.node_count = before.validation.node_count + 1
                /\ ir.edges = before.edges
                /\ ir.validation.edge_count = before.validation.edge_count

\* add_node of an id already stored, on an IR that holds two nodes and an edge
C11_Witness ==
    /\ step.op = "add_node"
    /\ step.outcome = "raised"
    /\ Len(ir.nodes) = 2
    /\ Len(ir.edges) = 1
    /\ step.arg.id = ir.nodes[2].id

HasDuplicateIds(nodes) == Cardinality(NodeIdsOf(nodes)) # Len(nodes)

UnknownSources(nodes, edges) ==
    {i \in 1..Len(edges) : edges[i].src \notin NodeIdsOf(nodes)}

UnknownDestinations(nodes, edges) ==
    {i \in 1..Len(edges) : edges[i].dst \notin NodeIdsOf(nodes)}

\* C12: constructing an IR does not raise for duplicate node ids or dangling
\* edges; it keeps the nodes and edges and appends one error string for the
\* duplicate ids, one for each unknown source and one for each unknown
\* destination, so is_valid is false whenever such an inconsistency exists.
C12_ConstructionTolerant ==
    step.op = "IR" =>
        LET errors == ir.validation.errors
            dup == HasDuplicateIds(args.nodes)
            srcs == UnknownSources(args.nodes, args.edges)
            dsts == UnknownDestinations(args.nodes, args.edges)
        IN /\ step.outcome = "returned"
           /\ ir.nodes = args.nodes
           /\ ir.edges = args.edges
           /\ dup <=> "Duplicate node IDs found" \in Range(errors)
           /\ \A i \in srcs :
                ("Edge references unknown source node: " \o args.edges[i].src)
                    \in Range(errors)
           /\ \A i \in dsts :
                ("Edge references unknown destination node: " \o args.edges[i].dst)
                    \in Range(errors)
           /\ Len(errors) = Len(args.validation.errors) + (IF dup THEN 1 ELSE 0)
                              + Cardinality(srcs) + Cardinality(dsts)
           /\ (dup \/ srcs # {} \/ dsts # {}) => ~is_valid(ir.validation)

\* an IR constructed from two nodes sharing an id and two edges, the second
\* of them dangling at its destination
C12_Witness ==
    /\ step.op = "IR"
    /\ HasDuplicateIds(args.nodes)
    /\ Len(args.edges) = 2
    /\ UnknownDestinations(args.nodes, args.edges) = {2}
    /\ ~is_valid(ir.validation)

\* C13: Edge(src, dst, type) yields an Edge exactly when src and dst are both
\* non-empty and src # dst, whatever the edge type; otherwise it raises and
\* no Edge results.
C13_EdgeConstruction ==
    step.op = "Edge" =>
        IF step.arg.src # "" /\ step.arg.dst # "" /\ step.arg.src # step.arg.dst
        THEN /\ step.outcome = "returned"
             /\ step.result.src = step.arg.src
             /\ step.result.dst = step.arg.dst
             /\ step.result.type = step.arg.type
        ELSE /\ step.outcome = "raised"
             /\ step.raised = "ValueError"
             /\ step.result = PyNone

\* a self-loop of a symmetric relationship type was rejected
C13_Witness ==
    /\ step.op = "Edge"
    /\ step.arg.src = "n1"
    /\ step.arg.dst = "n1"
    /\ step.arg.type = "adjacent_to"
    /\ step.outcome = "raised"
    /\ step.message = "Self-loops are not allowed in STEPGraph-IR"

\* C10: add_edge(e) raises when e.src is not the id of a stored node (checked
\* first) or when e.dst is not, and then edges, nodes, edge_count and
\* validation.errors are unchanged; otherwise e is appended at the end and
\* edge_count increases by one.
C10_AddEdgeStrict ==
    step.op = "add_edge" =>
        LET e == step.arg
            before == step.before
            ids == NodeIdsOf(before.nodes)
            unchanged == /\ ir.edges = before.edges
                         /\ ir.nodes = before.nodes
                         /\ ir.validation.edge_count = before.validation.edge_count
                         /\ ir.validation.errors = before.validation.errors
        IN IF e.src \notin ids
           THEN /\ step.outcome = "raised"
                /\ step.message = "Source node " \o e.src \o " does not exist"
                /\ unchanged
           ELSE IF e.dst \notin ids
           THEN /\ step.outcome = "raised"
                /\ step.message = "Destination node " \o e.dst \o " does not exist"
                /\ unchanged
           ELSE /\ step.outcome = "returned"
                /\ ir.edges = Append(before.edges, e)
                /\ ir.validation.edge_count = before.validation.edge_count + 1
                /\ ir.nodes = before.nodes

\* add_edge with a stored source and an absent destination, on an IR that
\* already holds an edge
C10_Witness ==
    /\ step.op = "add_edge"
    /\ step.outcome = "raised"
    /\ step.arg.src \in NodeIdsOf(ir.nodes)
    /\ step.arg.dst \notin NodeIdsOf(ir.nodes)
    /\ Len(ir.edges) = 1
    /\ ir.validation.edge_count = 1

-----------------------------------------------------------------------------
(* Codec: properties *)

\* C1: encoding an IR in deterministic mode, decoding that record with
\* load_jsonl and encoding the decoded IR in deterministic mode yields the
\* first encoding again, whether or not the IR is valid.
C1_RoundTrip ==
    (step.op = "dump_jsonl" /\ step.origin = "decoded") => wire = step.prev

\* C2: two IRs constructed from the same model_id, units and provenance whose
\* node lists and edge lists are permutations of one another have the same
\* deterministic encoding.
C2_OrderInsensitive ==
    (step.op = "dump_jsonl" /\ step.origin = "permuted") => wire = step.prev

\* C40: an IR whose validation.schema_version is v is written as a record
\* (schema_version v at its top level) that load_jsonl decodes to an IR whose
\* validation.schema_version is v.
C40_SchemaVersionRestored ==
    (step.op = "load_jsonl" /\ step.outcome = "returned") =>
        ir.validation.schema_version = wire.schema_version

\* C31: BoundingBox.volume is (max_x-min_x)*(max_y-min_y)*(max_z-min_z) for
\* every box, 24 for the corners (0,0,0) and (2,3,4), and an IR decoded from
\* the record written for an IR with a box carries a box of the same volume.
C31_VolumeFormula ==
    /\ step.op = "volume" =>
          LET b == step.arg
          IN /\ step.result
                  = (b.max_x - b.min_x) * (b.max_y - b.min_y) * (b.max_z - b.min_z)
             /\ (b = [min_x |-> 0, min_y |-> 0, min_z |-> 0,
                      max_x |-> 2, max_y |-> 3, max_z |-> 4]) => step.result = 24
             /\ step.origin = "decoded" =>
                   /\ args.bounding_box # PyNone
                   /\ step.result
                        = (args.bounding_box.max_x - args.bounding_box.min_x)
                            * (args.bounding_box.max_y - args.bounding_box.min_y)
                            * (args.bounding_box.max_z - args.bounding_box.min_z)
    /\ (step.op = "load_jsonl" /\ step.outcome = "returned") =>
          (ir.bounding_box = PyNone) = (args.bounding_box = PyNone)

\* the volume of the box (0,0,0)-(2,3,4) read from a decoded IR
C31_Witness ==
    /\ step.op = "volume"
    /\ step.origin = "decoded"
    /\ step.arg = [min_x |-> 0, min_y |-> 0, min_z |-> 0,
                   max_x |-> 2, max_y |-> 3, max_z |-> 4]
    /\ step.result = 24

EdgeMalformed(e) == e.src = "" \/ e.dst = "" \/ e.src = e.dst

\* a record whose graph is malformed: an edge with src = dst or an empty
\* endpoint, nodes sharing an id, an edge referencing an absent node
Malformed(data) ==
    \/ \E i \in 1..Len(data.edges) : EdgeMalformed(data.edges[i])
    \/ \E i, j \in 1..Len(data.nodes) : i # j /\ data.nodes[i].id = data.nodes[j].id
    \/ \E i \in 1..Len(data.edges) :
          \/ data.edges[i].src \notin NodeIdsOf(data.nodes)
          \/ data.edges[i].dst \notin NodeIdsOf(data.nodes)

\* C5: decoding a persisted record whose graph is malformed never raises; it
\* yields an IR that keeps the malformed elements and whose validation.errors
\* is non-empty.
C5_DecodeTolerance ==
    (step.op = "load_jsonl" /\ Malformed(wire)) =>
        /\ step.outcome = "returned"
        /\ [i \in 1..Len(ir.nodes) |-> ir.nodes[i].id]
             = [i \in 1..Len(wire.nodes) |-> wire.nodes[i].id]
        /\ [i \in 1..Len(ir.edges) |-> <<ir.edges[i].src, ir.edges[i].dst>>]
             = [i \in 1..Len(wire.edges) |-> <<wire.edges[i].src, wire.edges[i].dst>>]
        /\ ir.validation.errors # <<>>

-----------------------------------------------------------------------------
(* kernel.occt_io: load_step *)

\* Path(file_path).resolve() of a relative path
Resolve(path) == "/cwd/" \o path

\* what the file system holds at a path: it may not exist, be a directory
\* (of any size) or be a regular file, empty or not
FileStates ==
    {[exists |-> FALSE, is_file |-> FALSE, size |-> 0],
     [exists |-> TRUE, is_file |-> FALSE, size |-> 0],
     [exists |-> TRUE, is_file |-> FALSE, size |-> 1],
     [exists |-> TRUE, is_file |-> TRUE, size |-> 0],
     [exists |-> TRUE, is_file |-> TRUE, size |-> 1]}

\* a mutant of validate_step_file: the size is checked before the file type
validate_step_file_size_first(file_path, file) ==
    LET path == Resolve(file_path)
    IN IF ~file.exists
       THEN [outcome |-> "raised", raised |-> "StepImportError",
             message |-> "STEP file not found: " \o path]
       ELSE IF file.size = 0
       THEN [outcome |-> "raised", raised |-> "StepImportError",
             message |-> "STEP file is empty: " \o path]
       ELSE IF ~file.is_file
       THEN [outcome |-> "raised", raised |-> "StepImportError",
             message |-> "Path is not a file: " \o path]
       ELSE [outcome |-> "returned", path |-> path]

\* _validate_step_file: the resolved path, or StepImportError
validate_step_file(file_path, file) ==
    LET path == Resolve(file_path)
    IN IF ~file.exists
       THEN [outcome |-> "raised", raised |-> "StepImportError",
             message |-> "STEP file not found: " \o path]
       ELSE IF ~file.is_file
       THEN [outcome |-> "raised", raised |-> "StepImportError",
             message |-> "Path is not a file: " \o path]
       ELSE IF file.size = 0
       THEN [outcome |-> "raised", raised |-> "StepImportError",
             message |-> "STEP file is empty: " \o path]
       ELSE [outcome |-> "returned", path |-> path]

\* a mutant of loaders: pythonOCC is preferred to pyOCCT
loaders_pythonOCC_first == <<"pythonOCC", "pyOCCT", "freecad_occ">>

\* a mutant of loaders: pyOCCT is listed twice
loaders_pyOCCT_twice == <<"pyOCCT", "pyOCCT", "pythonOCC", "freecad_occ">>

\* the loaders list of load_step, by binding name
loaders == <<"pyOCCT", "pythonOCC", "freecad_occ">>

BindingNames == {"pyOCCT", "pythonOCC", "freecad_occ"}

\* the error a backend meets when it cannot read the file
BackendError(binding_name) == binding_name \o " read failed"

\* what calling a loader function does. The _try_*_import functions return a
\* LoadedModel, or catch their exception, log it and return None: "none" with
\* an empty error is the ImportError of a missing binding, "none" with an
\* error is a failed read. "raised" is a loader function that lets an
\* exception out (a patched one).
LoaderOutcomes(binding_name, available) ==
    IF available
    THEN {[kind |-> "handle", error |-> ""],
          [kind |-> "none", error |-> BackendError(binding_name)],
          [kind |-> "raised", error |-> BackendError(binding_name)]}
    ELSE {[kind |-> "none", error |-> ""]}

\* an environment: the file at the path, the bindings that import, and what
\* each loader function does
Environments ==
    {e \in [file_path : {"m0.step"},
            file : FileStates,
            available : [BindingNames -> BOOLEAN],
            loader : [BindingNames -> {[kind |-> k, error |-> x] :
                                         k \in {"handle", "none", "raised"},
                                         x \in {""} \cup {BackendError(b) : b \in BindingNames}}]] :
        \A b \in BindingNames : e.loader[b] \in LoaderOutcomes(b, e.available[b])}

\* get_occt_info: the three *_available flags
get_occt_info(env) ==
    [pyOCCT_available |-> env.available["pyOCCT"],
     pythonOCC_available |-> env.available["pythonOCC"],
     freecad_occ_available |-> env.available["freecad_occ"]]

\* a mutant of no_binding_available: the FreeCAD binding is not consulted
no_binding_available_two(occt_info) ==
    ~occt_info.pyOCCT_available /\ ~occt_info.pythonOCC_available

\* the condition under which load_step raises OCCTNotAvailableError
no_binding_available(occt_info) ==
    /\ ~occt_info.pyOCCT_available
    /\ ~occt_info.pythonOCC_available
    /\ ~occt_info.freecad_occ_available

\* a mutant of try_loaders: an exception of a loader function ends the loop
RECURSIVE try_loaders_stops_at_raise(_, _, _, _)
try_loaders_stops_at_raise(env, i, attempted, last_error) ==
    IF i > Len(loaders)
    THEN [kind |-> "exhausted", attempted |-> attempted, last_error |-> last_error]
    ELSE LET binding_name == loaders[i]
             r == env.loader[binding_name]
             called == Append(attempted, binding_name)
         IN IF r.kind = "handle"
            THEN [kind |-> "handle", attempted |-> called, last_error |-> last_error,
                  binding |-> binding_name]
            ELSE IF r.kind = "raised"
            THEN [kind |-> "exhausted", attempted |-> called,
                  last_error |-> [kind |-> "Exception", message |-> r.error]]
            ELSE try_loaders_stops_at_raise(env, i + 1, called, last_error)

\* the for loop of load_step from loaders[i] on: the loaders called so far and
\* the last exception a loader function raised (None if none did)
RECURSIVE try_loaders(_, _, _, _)
try_loaders(env, i, attempted, last_error) ==
    IF i > Len(loaders)
    THEN [kind |-> "exhausted", attempted |-> attempted, last_error |-> last_error]
    ELSE LET binding_name == loaders[i]
             r == env.loader[binding_name]
             called == Append(attempted, binding_name)
         IN IF r.kind = "handle"
            THEN [kind |-> "handle", attempted |-> called, last_error |-> last_error,
                  binding |-> binding_name]
            ELSE IF r.kind = "raised"
            THEN try_loaders(env, i + 1, called,
                             [kind |-> "Exception", message |-> r.error])
            ELSE try_loaders(env, i + 1, called, last_error)

\* load_step(file_path) in an environment: what it returns or raises, and the
\* loaders it called
load_step(env) ==
    LET v == validate_step_file(env.file_path, env.file)
    IN IF v.outcome = "raised"
       THEN [outcome |-> "raised", raised |-> v.raised, message |-> v.message,
             result |-> PyNone, binding |-> "", attempted |-> <<>>]
       ELSE LET t == try_loaders(env, 1, <<>>, PyNone)
            IN IF t.kind = "handle"
               THEN [outcome |-> "returned", raised |-> "", message |-> "",
                     result |-> [LoadedModel(env.file_path) EXCEPT !.file_path = v.path],
                     binding |-> t.binding,
                     attempted |-> t.attempted]
               ELSE IF no_binding_available(get_occt_info(env))
               THEN [outcome |-> "raised", raised |-> "OCCTNotAvailableError",
                     message |-> "No OCCT Python binding available. "
                        \o "Please install pyOCCT (recommended) or pythonocc-core:\n"
                        \o "  conda install -c conda-forge pythonocc-core\n"
                        \o "  OR\n"
                        \o "  pip install pythonocc-core",
                     result |-> PyNone, binding |-> "", attempted |-> t.attempted]
               ELSE IF t.last_error # PyNone
               THEN [outcome |-> "raised", raised |-> "StepImportError",
                     message |-> "Failed to load STEP file with available bindings: "
                                   \o t.last_error.message,
                     result |-> PyNone, binding |-> "", attempted |-> t.attempted]
               ELSE [outcome |-> "raised", raised |-> "StepImportError",
                     message |-> "Failed to load STEP file: unknown error",
                     result |-> PyNone, binding |-> "", attempted |-> t.attempted]

\* load_step(file_path) is called
LoadStep ==
    /\ step.op = "none"
    /\ step' = load_step(args) @@ [op |-> "load_step"]
    /\ UNCHANGED <<args, ir, wire, sessionVars>>

LoadStepInit ==
    /\ SessionIdle
    /\ args \in Environments
    /\ ir = PyNone
    /\ wire = PyNone
    /\ step = [op |-> "none"]

LoadStepNext == LoadStep

SpecLoadStep == LoadStepInit /\ [][LoadStepNext]_vars

-----------------------------------------------------------------------------
(* load_step: properties *)

LoadStepCall == step.op = "load_step"

FileIsValid(file) == file.exists /\ file.is_file /\ file.size # 0

BackendOrder == <<"pyOCCT", "pythonOCC", "freecad_occ">>

YieldsHandle(b) == args.loader[b].kind = "handle"

\* C14: load_step attempts the backends in the order pyOCCT, pythonOCC,
\* freecad_occ; a backend is attempted only if every earlier one yielded no
\* handle, and the handle of the first backend that yields one is returned
\* without attempting a later backend.
C14_BackendPriority ==
    (LoadStepCall /\ FileIsValid(args.file)) =>
        LET n == Len(step.attempted)
        IN /\ n \in 1..3
           /\ step.attempted = SubSeq(BackendOrder, 1, n)
           /\ \A i \in 1..(n - 1) : ~YieldsHandle(BackendOrder[i])
           /\ IF \E i \in 1..3 : YieldsHandle(BackendOrder[i])
              THEN /\ step.outcome = "returned"
                   /\ YieldsHandle(BackendOrder[n])
                   /\ step.binding = BackendOrder[n]
                   /\ step.result.kind = "LoadedModel"
              ELSE /\ n = 3
                   /\ step.outcome = "raised"

\* pyOCCT yielded no handle, pythonOCC yielded one and was returned, while
\* freecad_occ would have yielded one too
C14_Witness ==
    /\ LoadStepCall
    /\ step.outcome = "returned"
    /\ step.binding = "pythonOCC"
    /\ args.loader["pyOCCT"].kind = "raised"
    /\ YieldsHandle("freecad_occ")

Failed == {i \in 1..3 : args.loader[BackendOrder[i]].error # ""}

LastBackendError ==
    args.loader[BackendOrder[CHOOSE i \in Failed : \A j \in Failed : j <= i]].error

\* C16: when every backend fails while at least one binding is available
\* (a backend fails by returning no handle or by an exception), load_step
\* raises StepImportError with the message 'Failed to load STEP file with
\* available bindings: ' followed by the last recorded backend error.
C16_CarriesLastError ==
    (/\ LoadStepCall
     /\ FileIsValid(args.file)
     /\ \A b \in BindingNames : ~YieldsHandle(b)
     /\ \E b \in BindingNames : args.available[b]) =>
        /\ step.raised = "StepImportError"
        /\ step.message = "Failed to load STEP file with available bindings: "
                            \o LastBackendError

\* C17: load_step raises StepImportError for a path that does not exist, is
\* not a regular file, or is empty, checked in that order, and then no
\* backend loader is invoked.
C17_ValidationFirst ==
    (LoadStepCall /\ ~FileIsValid(args.file)) =>
        /\ step.outcome = "raised"
        /\ step.raised = "StepImportError"
        /\ step.attempted = <<>>
        /\ step.message =
             (IF ~args.file.exists THEN "STEP file not found: "
              ELSE IF ~args.file.is_file THEN "Path is not a file: "
              ELSE "STEP file is empty: ") \o Resolve(args.file_path)

\* a directory of size 0 is reported as not a file, and pyOCCT, which would
\* have yielded a handle, was not called
C17_Witness ==
    /\ LoadStepCall
    /\ args.file = [exists |-> TRUE, is_file |-> FALSE, size |-> 0]
    /\ YieldsHandle("pyOCCT")
    /\ step.attempted = <<>>
    /\ step.message = "Path is not a file: " \o Resolve(args.file_path)

-----------------------------------------------------------------------------
(* stepgraph_ir.serialize: JSONL files *)

MaxBatch == 2        \* batch_dump_jsonl is given at most MaxBatch IRs
MaxLines == 3        \* a file found on disk holds at most MaxLines lines

\* a line of a file: the JSON object orjson.dumps wrote (one line, no raw
\* newline) as orjson.loads reads it back
RecordLine(data) == [kind |-> "record", data |-> data]

\* dump_jsonl(ir, path, deterministic): the lines of the file written
dump_jsonl(g, deterministic) == <<RecordLine(to_json_dict(g, deterministic))>>

\* a mutant of batch_dump_jsonl: the records are written last IR first
batch_dump_jsonl_reversed(irs, deterministic) ==
    [i \in 1..Len(irs) |->
        RecordLine(to_json_dict(irs[Len(irs) + 1 - i], deterministic))]

\* batch_dump_jsonl(irs, path, deterministic): the lines of the file written
batch_dump_jsonl(irs, deterministic) ==
    [i \in 1..Len(irs) |-> RecordLine(to_json_dict(irs[i], deterministic))]

\* the message of orjson.JSONDecodeError for a line that is not JSON
JSONDecodeMessage == "unexpected character: line 1 column 1 (char 0)"

\* the try block of load_jsonl on a non-blank line: orjson.loads, then
\* _dict_to_ir (the records here give every node an id, so uuid4 is not used)
parse_line(line, line_num) ==
    IF line.kind = "text"
    THEN [outcome |-> "raised", raised |-> "ValueError",
          message |-> "Failed to parse line " \o ToString(line_num) \o ": "
                        \o JSONDecodeMessage]
    ELSE load_jsonl(line.data, line_num,
                    [i \in 1..Len(Get(line.data, "nodes", <<>>)) |-> "u1"])

\* the for loop of load_jsonl from line line_num on: the IRs yielded, and the
\* exception that ended the generator if one did
RECURSIVE read_lines(_, _, _)
read_lines(lines, line_num, yielded) ==
    IF line_num > Len(lines)
    THEN [outcome |-> "returned", raised |-> "", message |-> "", yielded |-> yielded]
    ELSE IF lines[line_num].kind = "blank"
    THEN read_lines(lines, line_num + 1, yielded)
    ELSE LET r == parse_line(lines[line_num], line_num)
         IN IF r.outcome = "raised"
            THEN [outcome |-> "raised", raised |-> r.raised, message |-> r.message,
                  yielded |-> yielded]
            ELSE read_lines(lines, line_num + 1, Append(yielded, r.ir))

\* a mutant of list_load_jsonl: a missing file is reported as a parse error
list_load_jsonl_missing_as_parse(path, file) ==
    IF file = PyNone
    THEN [outcome |-> "raised", raised |-> "ValueError",
          message |-> "Failed to parse line 1: JSONL file not found: " \o path,
          yielded |-> <<>>]
    ELSE read_lines(file.lines, 1, <<>>)

\* list(load_jsonl(path)): file is what the path holds, None if nothing
list_load_jsonl(path, file) ==
    IF file = PyNone
    THEN [outcome |-> "raised", raised |-> "FileNotFoundError",
          message |-> "JSONL file not found: " \o path, yielded |-> <<>>]
    ELSE read_lines(file.lines, 1, <<>>)

\* ValidationInfo() at a fixed time
DefaultValidation ==
    [schema_version |-> SCHEMA_VERSION, created_at |-> "2024-01-01T00:00:00",
     node_count |-> 0, edge_count |-> 0, warnings |-> <<>>, errors |-> <<>>]

\* the IRs of test_batch_dump_jsonl, and one with unsorted nodes and an edge
BatchPool ==
    {IR([model_id |-> "model1",
         nodes |-> <<Node("part1", "Part", <<[k |-> "name", v |-> Str("part1")]>>, "")>>,
         edges |-> <<>>, units |-> DefaultUnits, provenance |-> <<>>,
         validation |-> DefaultValidation, bounding_box |-> PyNone]),
     IR([model_id |-> "model2",
         nodes |-> <<Node("part2", "Part", <<[k |-> "name", v |-> Str("part2")]>>, "")>>,
         edges |-> <<>>, units |-> DefaultUnits, provenance |-> <<>>,
         validation |-> DefaultValidation, bounding_box |-> PyNone]),
     IR([model_id |-> "model0",
         nodes |-> <<Node("zzz", "Part", <<>>, ""), Node("aaa", "Assembly", <<>>, "")>>,
         edges |-> <<Edge("aaa", "zzz", "contains", <<>>).edge>>,
         units |-> DefaultUnits, provenance |-> <<>>,
         validation |-> DefaultValidation, bounding_box |-> PyNone])}

\* obj without a key
Without(obj, key) == [x \in DOMAIN obj \ {key} |-> obj[x]]

GoodRecord ==
    to_json_dict(IR([model_id |-> "model1",
                     nodes |-> <<Node("n1", "Part", <<>>, ""),
                                 Node("n2", "AdvancedFace", <<>>, "")>>,
                     edges |-> <<Edge("n1", "n2", "contains", <<>>).edge>>,
                     units |-> DefaultUnits, provenance |-> <<>>,
                     validation |-> DefaultValidation, bounding_box |-> PyNone]), TRUE)

\* lines a file may hold: blank, not JSON, a record, and records that are
\* JSON objects but lack model_id, lack a node's id, or hold a self-loop
LinePool ==
    {[kind |-> "blank"],
     [kind |-> "text", text |-> "invalid json content"],
     RecordLine(GoodRecord),
     RecordLine(Without(GoodRecord, "model_id")),
     RecordLine([GoodRecord EXCEPT !.nodes[2] = Without(@, "id")]),
     RecordLine([GoodRecord EXCEPT !.edges[1].dst = "n1"])}

JsonlPath == "batch.jsonl"

\* batch_dump_jsonl(irs, path): the file is created or overwritten
BatchDumpJsonl ==
    /\ args # PyNone
    /\ wire' = [kind |-> "file", lines |-> batch_dump_jsonl(args.irs, TRUE)]
    /\ step' = [op |-> "batch_dump_jsonl", outcome |-> "returned", raised |-> "",
                message |-> "", existed |-> wire # PyNone]
    /\ UNCHANGED <<args, ir, sessionVars>>

\* list(load_jsonl(path))
ListLoadJsonl ==
    /\ LET r == list_load_jsonl(JsonlPath, wire)
       IN /\ ir' = r.yielded
          /\ step' = [op |-> "load_jsonl", outcome |-> r.outcome, raised |-> r.raised,
                      message |-> r.message, existed |-> wire # PyNone]
    /\ UNCHANGED <<args, wire, sessionVars>>

\* IRs to write and no file yet, or a file found on disk
JsonlInit ==
    /\ SessionIdle
    /\ \/ /\ args \in {[kind |-> "batch", irs |-> irs] :
                          irs \in SeqsUpTo(BatchPool, MaxBatch)}
          /\ wire = PyNone
       \/ /\ args = PyNone
          /\ wire \in {[kind |-> "file", lines |-> ls] : ls \in SeqsUpTo(LinePool, MaxLines)}
    /\ ir = <<>>
    /\ step = [op |-> "none"]

JsonlNext == BatchDumpJsonl \/ ListLoadJsonl

SpecJsonl == JsonlInit /\ [][JsonlNext]_vars

-----------------------------------------------------------------------------
(* JSONL files: properties *)

LoadJsonlCall == step.op = "load_jsonl"

\* the line at position i cannot be decoded into an IR
Undecodable(lines, i) ==
    \/ lines[i].kind = "text"
    \/ /\ lines[i].kind = "record"
       /\ dict_to_ir(lines[i].data,
                     [j \in 1..Len(Get(lines[i].data, "nodes", <<>>)) |-> "u1"]).outcome
            = "raised"

\* what made the line at position i undecodable
Cause(lines, i) ==
    IF lines[i].kind = "text" THEN JSONDecodeMessage
    ELSE dict_to_ir(lines[i].data,
                    [j \in 1..Len(Get(lines[i].data, "nodes", <<>>)) |-> "u1"]).message

FirstUndecodable(lines) ==
    CHOOSE i \in 1..Len(lines) :
        Undecodable(lines, i) /\ \A j \in 1..(i - 1) : ~Undecodable(lines, j)

\* C18: when the record at physical line N cannot be decoded, whether it is
\* invalid JSON or a JSON object that is not a well-formed record, load_jsonl
\* fails with ValueError whose message names line N and the underlying cause.
C18_DecodeErrorCarriesLine ==
    (/\ LoadJsonlCall
     /\ step.existed
     /\ \E i \in 1..Len(wire.lines) : Undecodable(wire.lines, i)) =>
        LET N == FirstUndecodable(wire.lines)
        IN /\ step.outcome = "raised"
           /\ step.raised = "ValueError"
           /\ step.message = "Failed to parse line " \o ToString(N) \o ": "
                               \o Cause(wire.lines, N)

\* C19: load_jsonl on a path that does not exist fails with
\* FileNotFoundError, not with the line-numbered parse error, and yields no
\* record.
C19_MissingFileDistinct ==
    (LoadJsonlCall /\ ~step.existed) =>
        /\ step.outcome = "raised"
        /\ step.raised = "FileNotFoundError"
        /\ step.raised # "ValueError"
        /\ SubSeq(step.message, 1, 20) # "Failed to parse line"
        /\ ir = <<>>

\* load_jsonl was called before the batch of two IRs was written
C19_Witness ==
    /\ LoadJsonlCall
    /\ wire = PyNone
    /\ args # PyNone
    /\ Len(args.irs) = 2
    /\ step.raised = "FileNotFoundError"

\* C20: batch_dump_jsonl([ir1..irn]) writes n lines in list order, line i
\* being what dump_jsonl writes for ir_i alone, and load_jsonl of that file
\* yields n IRs in the same order with the same model ids.
C20_BatchSelfContained ==
    (args # PyNone /\ wire # PyNone) =>
        /\ Len(wire.lines) = Len(args.irs)
        /\ \A i \in 1..Len(args.irs) :
              <<wire.lines[i]>> = dump_jsonl(args.irs[i], TRUE)
        /\ LoadJsonlCall =>
              /\ step.outcome = "returned"
              /\ Len(ir) = Len(args.irs)
              /\ \A i \in 1..Len(args.irs) : ir[i].model_id = args.irs[i].model_id

\* two different IRs were written and read back
C20_Witness ==
    /\ LoadJsonlCall
    /\ args # PyNone
    /\ wire # PyNone
    /\ Len(args.irs) = 2
    /\ args.irs[1].model_id = "model2"
    /\ args.irs[2].model_id = "model0"
    /\ Len(ir) = 2

-----------------------------------------------------------------------------
(* load_step, statement by statement: validation, the loop over the loaders,
   the raise after the loop *)

Validating ==
    [op |-> "load_step", pc |-> "Validating", i |-> 1, attempted |-> <<>>,
     last_error |-> PyNone, outcome |-> "none", raised |-> "", message |-> "",
     binding |-> ""]

\* validated_path = _validate_step_file(file_path)
ValidateFile ==
    /\ step.pc = "Validating"
    /\ LET v == validate_step_file(args.file_path, args.file)
       IN step' = IF v.outcome = "raised"
                  THEN [step EXCEPT !.pc = "Failed", !.outcome = "raised",
                                    !.raised = v.raised, !.message = v.message]
                  ELSE [step EXCEPT !.pc = "TryingBackend"]
    /\ UNCHANGED <<args, ir, wire, sessionVars>>

\* one turn of the for loop: loader_func(validated_path) returns a handle,
\* returns None or raises
TryBackend ==
    /\ step.pc = "TryingBackend"
    /\ LET binding_name == loaders[step.i]
           r == args.loader[binding_name]
           next == IF step.i = Len(loaders) THEN "ExhaustedAllBackends"
                   ELSE "TryingBackend"
       IN step' = IF r.kind = "handle"
                  THEN [step EXCEPT !.pc = "Succeeded", !.outcome = "returned",
                                    !.binding = binding_name,
                                    !.attempted = Append(@, binding_name)]
                  ELSE [step EXCEPT
                          !.pc = next, !.i = @ + 1,
                          !.attempted = Append(@, binding_name),
                          !.last_error = IF r.kind = "raised"
                                         THEN [kind |-> "Exception", message |-> r.error]
                                         ELSE @]
    /\ UNCHANGED <<args, ir, wire, sessionVars>>

\* after the loop: get_occt_info() and one of the three raise statements
RaiseAfterLoop ==
    /\ step.pc = "ExhaustedAllBackends"
    /\ step' = IF no_binding_available(get_occt_info(args))
               THEN [step EXCEPT !.pc = "Failed", !.outcome = "raised",
                                 !.raised = "OCCTNotAvailableError",
                                 !.message = "No OCCT Python binding available."]
               ELSE IF step.last_error # PyNone
               THEN [step EXCEPT
                       !.pc = "Failed", !.outcome = "raised",
                       !.raised = "StepImportError",
                       !.message = "Failed to load STEP file with available bindings: "
                                     \o step.last_error.message]
               ELSE [step EXCEPT !.pc = "Failed", !.outcome = "raised",
                                 !.raised = "StepImportError",
                                 !.message = "Failed to load STEP file: unknown error"]
    /\ UNCHANGED <<args, ir, wire, sessionVars>>

IngestInit ==
    /\ SessionIdle
    /\ args \in Environments
    /\ ir = PyNone
    /\ wire = PyNone
    /\ step = Validating

IngestNext == ValidateFile \/ TryBackend \/ RaiseAfterLoop

\* the interpreter runs the call on: every loader function returns or raises
SpecIngest == IngestInit /\ [][IngestNext]_vars /\ WF_vars(IngestNext)

-----------------------------------------------------------------------------
(* load_step: soft failures and termination *)

\* the first backend whose loader function raises, none before it having
\* yielded a handle (0 if there is none)
FirstRaising ==
    LET at == {i \in 1..3 : /\ args.loader[BackendOrder[i]].kind = "raised"
                           /\ \A j \in 1..(i - 1) : ~YieldsHandle(BackendOrder[j])}
    IN IF at = {} THEN 0 ELSE CHOOSE i \in at : \A j \in at : i <= j

\* the error of the last loader function that raised
LastRaisedError ==
    LET at == {i \in 1..3 : args.loader[BackendOrder[i]].kind = "raised"}
    IN args.loader[BackendOrder[CHOOSE i \in at : \A j \in at : j <= i]].error

\* C37: if a backend loader raises instead of returning, load_step catches
\* the exception, records it as the last error and still attempts the next
\* backend in order; the exception never escapes load_step directly.
C37_BackendExceptionIsSoft ==
    (LoadStepCall /\ FileIsValid(args.file) /\ FirstRaising # 0) =>
        /\ FirstRaising < 3 => Len(step.attempted) > FirstRaising
        /\ step.attempted = SubSeq(BackendOrder, 1, Len(step.attempted))
        /\ \/ step.outcome = "returned"
           \/ step.outcome = "raised"
                /\ step.raised \in {"StepImportError", "OCCTNotAvailableError"}
        /\ (\A b \in BindingNames : ~YieldsHandle(b)) =>
              /\ step.raised = "StepImportError"
              /\ step.message = "Failed to load STEP file with available bindings: "
                                  \o LastRaisedError

\* pyOCCT raised, pythonOCC returned None and freecad_occ raised: all three
\* were attempted and the last exception is reported
C37_Witness ==
    /\ LoadStepCall
    /\ args.loader["pyOCCT"].kind = "raised"
    /\ args.loader["pythonOCC"].kind = "none"
    /\ args.loader["freecad_occ"].kind = "raised"
    /\ step.attempted = BackendOrder
    /\ step.message = "Failed to load STEP file with available bindings: "
                        \o BackendError("freecad_occ")

Terminal == step.pc \in {"Succeeded", "Failed"}

\* no backend is attempted before validation passed, the attempts follow the
\* backend order without repeats, and a terminal state carries one outcome
IngestionShape ==
    /\ step.pc \in {"Validating", "TryingBackend", "ExhaustedAllBackends",
                    "Succeeded", "Failed"}
    /\ step.pc = "Validating" => step.attempted = <<>>
    /\ Len(step.attempted) <= 3
    /\ step.attempted = SubSeq(BackendOrder, 1, Len(step.attempted))
    /\ step.pc = "ExhaustedAllBackends" => step.attempted = BackendOrder
    /\ step.pc = "Succeeded" =>
          /\ step.outcome = "returned"
          /\ step.raised = ""
          /\ step.attempted # <<>>
    /\ step.pc = "Failed" =>
          /\ step.outcome = "raised"
          /\ step.raised \in {"StepImportError", "OCCTNotAvailableError"}
    /\ ~Terminal => step.outcome = "none"

\* C39: every load_step call validates, then attempts each backend at most
\* once and in order, and ends in exactly one outcome: a returned
\* LoadedModel, StepImportError or OCCTNotAvailableError; after a terminal
\* outcome no backend is attempted; and every call reaches a terminal outcome.
C39_IngestionTerminates ==
    /\ []IngestionShape
    /\ [][Terminal => step' = step]_vars
    /\ <>Terminal

\* a call that tried all three backends and failed with the last exception
C39_Witness ==
    /\ step.pc = "Failed"
    /\ step.attempted = BackendOrder
    /\ step.raised = "StepImportError"
    /\ step.last_error # PyNone

-----------------------------------------------------------------------------
(* Counts of the IR *)

\* C24: right after IR construction and after every add_node or add_edge
\* call, returned or raised, validation.node_count is the number of stored
\* nodes and validation.edge_count the number of stored edges.
C24_CountsTrackGraph ==
    step.op \in {"IR", "add_node", "add_edge"} =>
        /\ ir.validation.node_count = Len(ir.nodes)
        /\ ir.validation.edge_count = Len(ir.edges)

\* an add_edge that raised on a graph holding nodes and an edge
C24_Witness ==
    /\ step.op = "add_edge"
    /\ step.outcome = "raised"
    /\ Len(ir.nodes) >= 2
    /\ Len(ir.edges) >= 1
    /\ ir.validation.node_count = Len(ir.nodes)

-----------------------------------------------------------------------------
(* Graph integrity under add_node and add_edge *)

ValidAtConstruction == is_valid(IR(args).validation)

\* C36: on an IR that was valid at construction, after any sequence of
\* add_node and add_edge calls, returned or raised, node ids are pairwise
\* distinct, every stored edge's src and dst is the id of a stored node, and
\* validation.is_valid is still true.
C36_IntegrityPreserved ==
    ValidAtConstruction =>
        /\ \A i, j \in 1..Len(ir.nodes) : i # j => ir.nodes[i].id # ir.nodes[j].id
        /\ \A i \in 1..Len(ir.edges) :
              /\ ir.edges[i].src \in NodeIdsOf(ir.nodes)
              /\ ir.edges[i].dst \in NodeIdsOf(ir.nodes)
        /\ is_valid(ir.validation)

\* a valid IR that grew by a node and an edge, and whose last add_edge raised
C36_Witness ==
    /\ ValidAtConstruction
    /\ step.op = "add_edge"
    /\ step.outcome = "raised"
    /\ Len(ir.nodes) > Len(args.nodes)
    /\ Len(ir.edges) > Len(args.edges)

-----------------------------------------------------------------------------
(* ValidationInfo: a caller fills warnings, IR._validate fills errors *)

\* the longest warnings or errors list
MaxMessages == 2

\* messages of summary.py and of the tests
WarningTexts == {"Test warning", "Could not compute volume"}

\* messages of IR._validate and of the tests
ValidationErrorTexts == {"Test error", "Duplicate node IDs found"}

\* ValidationInfo(warnings=..., errors=...)
ValidationInfo(warnings, errors) ==
    [schema_version |-> SCHEMA_VERSION, created_at |-> "2024-01-01T00:00:00",
     node_count |-> 0, edge_count |-> 0, warnings |-> warnings, errors |-> errors]

\* the operation, validation.is_valid read after it and as it was before
ValidationStep(op, validation, before) ==
    [op |-> op, is_valid |-> is_valid(validation), was_valid |-> is_valid(before)]

NewValidationInfo ==
    /\ \E warnings \in SeqsUpTo(WarningTexts, MaxMessages),
          errors \in SeqsUpTo(ValidationErrorTexts, MaxMessages) :
          /\ ir' = ValidationInfo(warnings, errors)
          /\ step' = ValidationStep("ValidationInfo", ir', ir')
    /\ UNCHANGED <<args, wire, sessionVars>>

\* validation.warnings.extend(summary.analysis_warnings)
ExtendWarnings ==
    /\ \E added \in SeqsUpTo(WarningTexts, MaxMessages - Len(ir.warnings)) :
          /\ added # <<>>
          /\ ir' = [ir EXCEPT !.warnings = @ \o added]
          /\ step' = ValidationStep("extend_warnings", ir', ir)
    /\ UNCHANGED <<args, wire, sessionVars>>

\* validation.warnings.pop(): the list is a public field
PopWarning ==
    /\ ir.warnings # <<>>
    /\ ir' = [ir EXCEPT !.warnings = SubSeq(@, 1, Len(@) - 1)]
    /\ step' = ValidationStep("pop_warning", ir', ir)
    /\ UNCHANGED <<args, wire, sessionVars>>

\* self.validation.errors.append(...) of IR._validate
AppendError ==
    /\ Len(ir.errors) < MaxMessages
    /\ \E error \in ValidationErrorTexts :
          /\ ir' = [ir EXCEPT !.errors = Append(@, error)]
          /\ step' = ValidationStep("append_error", ir', ir)
    /\ UNCHANGED <<args, wire, sessionVars>>

ValidationInit ==
    /\ SessionIdle
    /\ args = PyNone
    /\ ir = ValidationInfo(<<>>, <<>>)
    /\ wire = PyNone
    /\ step = ValidationStep("ValidationInfo", ir, ir)

ValidationNext == NewValidationInfo \/ ExtendWarnings \/ PopWarning \/ AppendError

SpecValidation == ValidationInit /\ [][ValidationNext]_vars

\* C25: is_valid is true exactly when errors is empty, in every state, and
\* adding or removing warnings never changes is_valid.
C25_ValidIffNoErrors ==
    /\ step.is_valid <=> ir.errors = <<>>
    /\ step.op \in {"extend_warnings", "pop_warning"} =>
           step.is_valid = step.was_valid

\* a warning was added to a ValidationInfo without errors that held one
C25_Witness ==
    /\ step.op = "extend_warnings"
    /\ step.is_valid
    /\ step.was_valid
    /\ Len(ir.warnings) >= 2
    /\ ir.errors = <<>>

-----------------------------------------------------------------------------
(* to_json_string in both modes, and an IR built again from what it emitted *)

\* to_json_string(ir, deterministic, pretty): json.dumps(data, indent=2) or
\* orjson.dumps(data); both write the keys of every object in dict order
to_json_string(g, deterministic, pretty) ==
    [encoder |-> IF pretty THEN "json.dumps" ELSE "orjson.dumps",
     indent |-> IF pretty THEN 2 ELSE 0,
     data |-> to_json_dict(g, deterministic)]

\* the nodes of test_deterministic_sorting, a second Part and a node whose
\* type the priority table does not hold
EncodeNodePool ==
    NodePool \cup {Node("ppp", "Part", <<[k |-> "name", v |-> Str("pump")]>>, ""),
                   Node("bbb", "CustomType",
                        <<[k |-> "z", v |-> Num(1)], [k |-> "a", v |-> Num(2)]>>, "")}

\* arguments of IR(...) for the encoder
EncodeArgs ==
    {a \in [model_id : {"test_model"},
            nodes : ListsUpTo(EncodeNodePool, MaxNodes),
            edges : ListsUpTo(EdgePool, MaxEdges),
            units : {DefaultUnits},
            provenance : ProvenanceInputs,
            validation : ValidationInputs,
            bounding_box : {PyNone}] :
        (a.provenance = <<>>) <=> (a.validation.schema_version = SCHEMA_VERSION)}

\* datetime.utcnow().isoformat() when the second IR is built
CreatedAtInputs == {"2024-01-01T00:00:00", "2024-01-01T00:00:01"}

\* the ValidationInfo the second IR is built with: the default factory at
\* either clock reading, or one of the arguments the first IR was given
RebuildValidations(first) ==
    {[kind |-> "default", validation |-> [DefaultValidation EXCEPT !.created_at = c]] :
        c \in CreatedAtInputs}
      \cup {[kind |-> "as_given", validation |-> first]}

EncodeStep(origin, validation, canonical) ==
    [op |-> "IR", deterministic |-> FALSE, pretty |-> FALSE, origin |-> origin,
     validation |-> validation, canonical |-> canonical]

ToJsonString ==
    /\ \E deterministic \in BOOLEAN, pretty \in BOOLEAN :
          /\ wire' = to_json_string(ir, deterministic, pretty)
          /\ step' = [step EXCEPT !.op = "to_json_string",
                                  !.deterministic = deterministic,
                                  !.pretty = pretty]
    /\ UNCHANGED <<args, ir, sessionVars>>

\* IR(...) from the nodes, edges, units and provenance of the deterministic
\* output, in the order it holds them
RebuildFromCanonical ==
    /\ step.op = "to_json_string"
    /\ step.deterministic
    /\ step.origin = "constructed"
    /\ \E v \in RebuildValidations(args.validation) :
          /\ args' = [model_id |-> wire.data.model_id,
                      nodes |-> [i \in 1..Len(wire.data.nodes) |->
                                   Node(wire.data.nodes[i].id, wire.data.nodes[i].type,
                                        wire.data.nodes[i].attrs, "")],
                      edges |-> [i \in 1..Len(wire.data.edges) |->
                                   Edge(wire.data.edges[i].src, wire.data.edges[i].dst,
                                        wire.data.edges[i].type,
                                        wire.data.edges[i].attrs).edge],
                      units |-> wire.data.units,
                      provenance |-> wire.data.provenance,
                      validation |-> v.validation,
                      bounding_box |-> PyNone]
          /\ ir' = IR(args')
          /\ step' = EncodeStep("rebuilt", v.kind, wire.data)
    /\ UNCHANGED <<wire, sessionVars>>

EncodeInit ==
    /\ SessionIdle
    /\ args \in EncodeArgs
    /\ ir = IR(args)
    /\ wire = PyNone
    /\ step = EncodeStep("constructed", "as_given", PyNone)

EncodeNext == ToJsonString \/ RebuildFromCanonical

SpecEncode == EncodeInit /\ [][EncodeNext]_vars

-----------------------------------------------------------------------------
(* Encoder: properties *)

Encoded(deterministic) ==
    step.op = "to_json_string" /\ step.deterministic = deterministic

\* the priority table, with 999 for every other type
PriorityTable(type) ==
    LET table == [Assembly |-> 0, Part |-> 1, Product |-> 2,
                  ManifoldSolidBrep |-> 10, AdvancedFace |-> 11, EdgeCurve |-> 12,
                  VertexPoint |-> 13, Unit |-> 20, CoordinateSystem |-> 21,
                  PMI_Entity |-> 30, GeometricTolerance |-> 31,
                  DimensioningTolerance |-> 32, ValidationProperty |-> 40,
                  MaterialProperty |-> 41, SurfaceFinish |-> 42]
    IN IF type \in DOMAIN table THEN table[type] ELSE 999

\* a is not after b by (type_priority, id)
NodeNotAfter(a, b) ==
    \/ PriorityTable(a.type) < PriorityTable(b.type)
    \/ PriorityTable(a.type) = PriorityTable(b.type) /\ ~StrLess(b.id, a.id)

\* a is not after b by (src, dst, type)
EdgeNotAfter(a, b) ==
    \/ StrLess(a.src, b.src)
    \/ a.src = b.src /\ StrLess(a.dst, b.dst)
    \/ a.src = b.src /\ a.dst = b.dst /\ ~StrLess(b.type, a.type)

Ids(nodes) == [i \in 1..Len(nodes) |-> nodes[i].id]

\* C26: in deterministic mode the emitted nodes ascend by (type_priority,
\* id) under the fixed priority table, unrecognized types at 999, and the
\* emitted edges ascend by (src, dst, type) compared lexicographically.
C26_CanonicalOrder ==
    Encoded(TRUE) =>
        /\ \A i, j \in 1..Len(wire.data.nodes) :
              i < j => NodeNotAfter(wire.data.nodes[i], wire.data.nodes[j])
        /\ \A i, j \in 1..Len(wire.data.edges) :
              i < j => EdgeNotAfter(wire.data.edges[i], wire.data.edges[j])

\* a deterministic output that moved a node of unrecognized type behind a
\* node given after it, and reordered two edges
C26_Witness ==
    /\ Encoded(TRUE)
    /\ Len(ir.nodes) >= 2
    /\ ir.nodes[1].type = "CustomType"
    /\ wire.data.nodes[Len(wire.data.nodes)].type = "CustomType"
    /\ Len(ir.edges) >= 2
    /\ wire.data.edges[1].src = ir.edges[2].src
    /\ wire.data.edges[1].src # ir.edges[1].src

AttrsOf(g) ==
    {g.nodes[i].attrs : i \in 1..Len(g.nodes)}
      \cup {g.edges[i].attrs : i \in 1..Len(g.edges)}
      \cup {g.units, g.provenance}

\* C27: an IR rebuilt from the nodes, edges, units and provenance in the
\* order the deterministic encoding emitted them encodes deterministically
\* to the same output, and _sort_dict_recursive applied twice equals
\* applying it once. The rebuilt IR is taken with the ValidationInfo
\* arguments of the first, which leaves the timestamp out of the comparison.
C27_CanonicalIdempotence ==
    /\ (Encoded(TRUE) /\ step.origin = "rebuilt" /\ step.validation = "as_given")
          => wire.data = step.canonical
    /\ \A d \in AttrsOf(ir) : SortDict(SortDict(d)) = SortDict(d)

\* C28: to_json_dict(ir, deterministic=False) emits nodes and edges in the
\* IR's insertion order and every attribute mapping in its own key order,
\* with or without pretty-printing.
C28_InsertionOrderKept ==
    Encoded(FALSE) =>
        /\ wire.data.nodes = [i \in 1..Len(ir.nodes) |->
                                [id |-> ir.nodes[i].id, type |-> ir.nodes[i].type,
                                 attrs |-> ir.nodes[i].attrs]]
        /\ wire.data.edges = [i \in 1..Len(ir.edges) |->
                                [src |-> ir.edges[i].src, dst |-> ir.edges[i].dst,
                                 type |-> ir.edges[i].type,
                                 attrs |-> ir.edges[i].attrs]]
        /\ wire.data.units = ir.units
        /\ wire.data.provenance = ir.provenance

\* pretty output in insertion order where the canonical order is another,
\* with attrs and provenance whose keys are not sorted
C28_Witness ==
    /\ Encoded(FALSE)
    /\ step.pretty
    /\ Len(ir.nodes) >= 2
    /\ Ids(wire.data.nodes) # Ids(SortedNodes(ir.nodes))
    /\ \E i \in 1..Len(ir.nodes) : SortDict(ir.nodes[i].attrs) # ir.nodes[i].attrs
    /\ SortDict(ir.provenance) # ir.provenance
    /\ Len(ir.edges) >= 2
    /\ wire.data.edges[1].src # SortedEdges(ir.edges)[1].src

-----------------------------------------------------------------------------
(* Node and BoundingBox: properties *)

FirstEight(s) == IF Len(s) <= 8 THEN s ELSE SubSeq(s, 1, 8)

\* C29: a constructed Node never has an empty id, an empty id being replaced
\* by a freshly generated one; a node of type Assembly, Part or Product
\* always has a 'name' attribute, which when injected is
\* 'Unnamed_<type>_<first 8 characters of the final id>'; a supplied name
\* and the attrs of every other node type are left unchanged.
C29_NodeNormalised ==
    step.op = "Node" =>
        LET given == step.arg
            node == step.result
            container == given.type \in {"Assembly", "Part", "Product"}
        IN /\ node.id # ""
           /\ given.id # "" => node.id = given.id
           /\ given.id = "" => node.id \in UuidInputs
           /\ node.type = given.type
           /\ container => DictHas(node.attrs, "name")
           /\ IF container /\ ~DictHas(given.attrs, "name")
              THEN node.attrs =
                     Append(given.attrs,
                            [k |-> "name",
                             v |-> Str("Unnamed_" \o given.type \o "_"
                                         \o FirstEight(node.id))])
              ELSE node.attrs = given.attrs

\* an Assembly given no id and no name
C29_Witness ==
    /\ step.op = "Node"
    /\ step.arg.id = ""
    /\ step.arg.type = "Assembly"
    /\ step.arg.attrs = <<[k |-> "area", v |-> Num(2)]>>
    /\ DictGet(step.result.attrs, "name") = Str("Unnamed_Assembly_3f2a9c1e")

\* C30: BoundingBox.center is, for every box, the midpoint on each axis:
\* ((min_x+max_x)/2, (min_y+max_y)/2, (min_z+max_z)/2).
C30_CenterIsMidpoint ==
    step.op = "center" =>
        /\ 2 * step.result[1] = step.arg.min_x + step.arg.max_x
        /\ 2 * step.result[2] = step.arg.min_y + step.arg.max_y
        /\ 2 * step.result[3] = step.arg.min_z + step.arg.max_z

-----------------------------------------------------------------------------
(* ShapeBridgeSession called from several threads: the code takes no lock, so
   the threads interleave between the statements of the methods *)

Threads == {"t1", "t2"}

\* the files and ids the threads work on
SharedPaths == {"m0.step", "m1.step"}
SharedIds == {"m0", "m1"}

Idle == [pc |-> "idle", op |-> "none", arg |-> "", id |-> "", ret |-> "",
         victims |-> <<>>, summary |-> PyNone]

\* thread t moves to a position with some of its locals set
Goto(t, th) == step' = [step EXCEPT ![t] = th]

SharedKept == UNCHANGED <<models, summaries, load_times>>

HostKept == UNCHANGED <<max_models, call, args, ir, wire>>

\* a thread calls load_model, generate_summary or remove_model
Begin(t) ==
    /\ step[t].pc = "idle"
    /\ \/ \E file_path \in SharedPaths :
            Goto(t, [Idle EXCEPT !.pc = "load_step", !.op = "load_model",
                                 !.arg = file_path])
       \/ \E model_id \in SharedIds :
            Goto(t, [Idle EXCEPT !.pc = "summary_check", !.op = "generate_summary",
                                 !.arg = model_id, !.id = model_id])
       \/ \E model_id \in SharedIds :
            Goto(t, [Idle EXCEPT !.pc = "del_model", !.op = "remove_model",
                                 !.arg = model_id, !.id = model_id, !.ret = "idle"])
    /\ SharedKept
    /\ HostKept

\* load_model: loaded_model = load_step(file_path), or the except clause
CallLoadStep(t) ==
    /\ step[t].pc = "load_step"
    /\ \/ Goto(t, [step[t] EXCEPT !.pc = "store_model",
                                  !.id = LoadedModel(step[t].arg).model_id])
       \/ Goto(t, Idle)
    /\ SharedKept
    /\ HostKept

\* load_model: self._models[loaded_model.model_id] = loaded_model
StoreModel(t) ==
    /\ step[t].pc = "store_model"
    /\ models' = DictSet(models, step[t].id, LoadedModel(step[t].arg))
    /\ Goto(t, [step[t] EXCEPT !.pc = "store_time"])
    /\ UNCHANGED <<summaries, load_times>>
    /\ HostKept

\* load_model: self._load_times[loaded_model.model_id] = time.time()
StoreTime(t) ==
    /\ step[t].pc = "store_time"
    /\ \E now \in LoadTimes : load_times' = DictSet(load_times, step[t].id, now)
    /\ Goto(t, [step[t] EXCEPT !.pc = "cleanup"])
    /\ UNCHANGED <<models, summaries>>
    /\ HostKept

\* cleanup_old_models up to the for loop: the length test and the victims
CleanupStart(t) ==
    /\ step[t].pc = "cleanup"
    /\ IF Len(models) <= max_models
       THEN Goto(t, Idle)
       ELSE Goto(t, [step[t] EXCEPT !.pc = "cleanup_next",
                                    !.victims = models_to_remove(Session, max_models)])
    /\ SharedKept
    /\ HostKept

\* cleanup_old_models: for model_id, _ in models_to_remove
CleanupNext(t) ==
    /\ step[t].pc = "cleanup_next"
    /\ IF step[t].victims = <<>>
       THEN Goto(t, Idle)
       ELSE Goto(t, [step[t] EXCEPT !.pc = "del_model",
                                    !.id = Head(step[t].victims).k,
                                    !.victims = Tail(step[t].victims),
                                    !.ret = "cleanup_next"])
    /\ SharedKept
    /\ HostKept

\* remove_model: if model_id in self._models: del self._models[model_id]
DelModel(t) ==
    /\ step[t].pc = "del_model"
    /\ models' = DictDel(models, step[t].id)
    /\ Goto(t, [step[t] EXCEPT !.pc = "del_summary"])
    /\ UNCHANGED <<summaries, load_times>>
    /\ HostKept

\* remove_model: if model_id in self._summaries: del self._summaries[model_id]
DelSummary(t) ==
    /\ step[t].pc = "del_summary"
    /\ summaries' = MapDel(summaries, step[t].id)
    /\ Goto(t, [step[t] EXCEPT !.pc = "del_time"])
    /\ UNCHANGED <<models, load_times>>
    /\ HostKept

\* remove_model: if model_id in self._load_times: del self._load_times[model_id]
DelTime(t) ==
    /\ step[t].pc = "del_time"
    /\ load_times' = DictDel(load_times, step[t].id)
    /\ Goto(t, IF step[t].ret = "idle" THEN Idle
               ELSE [step[t] EXCEPT !.pc = step[t].ret])
    /\ UNCHANGED <<models, summaries>>
    /\ HostKept

\* generate_summary: if model_id not in self._models: raise SessionError
SummaryCheck(t) ==
    /\ step[t].pc = "summary_check"
    /\ IF DictHas(models, step[t].id)
       THEN Goto(t, [step[t] EXCEPT !.pc = "summarize"])
       ELSE Goto(t, Idle)
    /\ SharedKept
    /\ HostKept

\* generate_summary: loaded_model = self._models[model_id] and
\* summarize_shape(loaded_model); a KeyError or an exception of the summarizer
\* reaches the except clause, which makes the placeholder
Summarize(t) ==
    /\ step[t].pc = "summarize"
    /\ IF DictHas(models, step[t].id)
       THEN \/ Goto(t, [step[t] EXCEPT
                          !.pc = "store_summary",
                          !.summary = ComputedSummary(DictGet(models, step[t].id))])
            \/ \E error_text \in ErrorTexts :
                 Goto(t, [step[t] EXCEPT
                            !.pc = "store_summary",
                            !.summary = create_placeholder_summary(step[t].id, error_text)])
       ELSE Goto(t, [step[t] EXCEPT
                       !.pc = "store_summary",
                       !.summary = create_placeholder_summary(
                                      step[t].id, "'" \o step[t].id \o "'")])
    /\ SharedKept
    /\ HostKept

\* generate_summary: self._summaries[model_id] = summary; return summary
StoreSummary(t) ==
    /\ step[t].pc = "store_summary"
    /\ summaries' = MapSet(summaries, step[t].id, step[t].summary)
    /\ Goto(t, Idle)
    /\ UNCHANGED <<models, load_times>>
    /\ HostKept

ConcurrentInit ==
    /\ max_models \in 0..MaxCap
    /\ models = <<>>
    /\ summaries = << >>
    /\ load_times = <<>>
    /\ call = [NoCall EXCEPT !.kept = [models |-> TRUE, summaries |-> TRUE,
                                       load_times |-> TRUE]]
    /\ args = PyNone
    /\ ir = PyNone
    /\ wire = PyNone
    /\ step = [t \in Threads |-> Idle]

ConcurrentNext ==
    \E t \in Threads :
        \/ Begin(t)
        \/ CallLoadStep(t)
        \/ StoreModel(t)
        \/ StoreTime(t)
        \/ CleanupStart(t)
        \/ CleanupNext(t)
        \/ DelModel(t)
        \/ DelSummary(t)
        \/ DelTime(t)
        \/ SummaryCheck(t)
        \/ Summarize(t)
        \/ StoreSummary(t)

SpecConcurrent == ConcurrentInit /\ [][ConcurrentNext]_vars

-----------------------------------------------------------------------------
(* Concurrency: properties *)

\* a summary is cached for an id that is not stored, or a stored model and
\* its load-time record are not both present
TornState ==
    \E id \in SharedIds :
        \/ id \in DOMAIN summaries /\ ~DictHas(models, id)
        \/ ~(DictHas(models, id) <=> DictHas(load_times, id))

\* every call has returned or raised
Quiescent == \A t \in Threads : step[t].pc = "idle"

\* C23: with load_model, generate_summary and remove_model invoked
\* concurrently on the shared session, each call appears atomic: no
\* interleaving leaves, once the calls have returned, a summary cached for an
\* id that is not stored, or a stored model and its load-time record that
\* are not both present.
C23_AppearsAtomic == Quiescent => ~TornState

-----------------------------------------------------------------------------
(* The session over reloads: a file may change between two loads of it, and
   the calls that change the stored models are logged in order *)

\* the most loads and removals in one run
MaxOps == 4

\* os.path.getsize(file_path) when the file is loaded
FileSizes == {100, 200}

\* the LoadedModel load_step returns for a file of that size
LoadedModelOfSize(file_path, file_size) ==
    [kind |-> "LoadedModel", model_id |-> Stem(file_path), file_path |-> file_path,
     metadata |-> [file_size |-> file_size]]

\* the GeometrySummary summarize_shape returns for a handle
summarize_shape(loaded_model) ==
    [kind |-> "GeometrySummary", model_id |-> loaded_model.model_id,
     placeholder |-> FALSE, of |-> loaded_model.file_path,
     file_size |-> loaded_model.metadata.file_size, analysis_warnings |-> <<>>]

\* the session maps become s; the log grows by the entries given
FinishLogged(s, record, entries) ==
    /\ models' = s.models
    /\ summaries' = s.summaries
    /\ load_times' = s.load_times
    /\ call' = [record EXCEPT !.kept = Kept(s)]
    /\ step' = [step EXCEPT !.log = @ \o entries]
    /\ UNCHANGED <<max_models, args, ir, wire>>

\* a mutant of ReloadModel: the load time of a stored id is not refreshed
ReloadModelKeepsFirstTime ==
    /\ Len(step.log) < MaxOps
    /\ \E file_path \in FilePaths, file_size \in FileSizes :
          LET h == LoadedModelOfSize(file_path, file_size)
              t == Len(step.log)
              stored == [Session EXCEPT
                           !.models = DictSet(@, h.model_id, h),
                           !.load_times = IF DictHas(@, h.model_id) THEN @
                                          ELSE DictSet(@, h.model_id, t)]
          IN FinishLogged(cleanup_old_models(stored, max_models),
                          [NoCall EXCEPT !.op = "load_model", !.arg = file_path,
                                         !.t = t, !.collaborator = "returned",
                                         !.outcome = "returned", !.result = h,
                                         !.held = stored.load_times],
                          <<[op |-> "load_model", id |-> h.model_id]>>)

\* load_model when load_step returns; time.time() is later at every load
ReloadModel ==
    /\ Len(step.log) < MaxOps
    /\ \E file_path \in FilePaths, file_size \in FileSizes :
          LET h == LoadedModelOfSize(file_path, file_size)
              t == Len(step.log)
              stored == [Session EXCEPT !.models = DictSet(@, h.model_id, h),
                                        !.load_times = DictSet(@, h.model_id, t)]
          IN FinishLogged(cleanup_old_models(stored, max_models),
                          [NoCall EXCEPT !.op = "load_model", !.arg = file_path,
                                         !.t = t, !.collaborator = "returned",
                                         !.outcome = "returned", !.result = h,
                                         !.held = stored.load_times],
                          <<[op |-> "load_model", id |-> h.model_id]>>)

RemoveLogged ==
    /\ Len(step.log) < MaxOps
    /\ \E model_id \in ModelIds :
          FinishLogged(remove_model(Session, model_id),
                       [NoCall EXCEPT !.op = "remove_model", !.arg = model_id,
                                      !.outcome = "returned"],
                       <<[op |-> "remove_model", id |-> model_id]>>)

ReloadInit ==
    /\ SessionInit
    /\ args = PyNone
    /\ ir = PyNone
    /\ wire = PyNone
    /\ step = [log |-> <<>>]

ReloadNext == ReloadModel \/ RemoveLogged

SpecReload == ReloadInit /\ [][ReloadNext]_vars

-----------------------------------------------------------------------------
(* The session with its lookups *)

\* the files loaded here; m2 is looked up and never stored
LookupPaths == {"m0.step", "m1.step"}

\* load_model when load_step returns a handle for a file of some size
LoadOfSize ==
    \E file_path \in LookupPaths, file_size \in FileSizes, t \in LoadTimes :
        LET h == LoadedModelOfSize(file_path, file_size)
            stored == [Session EXCEPT !.models = DictSet(@, h.model_id, h),
                                      !.load_times = DictSet(@, h.model_id, t)]
        IN Finish(cleanup_old_models(stored, max_models),
                  [NoCall EXCEPT !.op = "load_model", !.arg = file_path, !.t = t,
                                 !.collaborator = "returned", !.outcome = "returned",
                                 !.result = h, !.held = stored.load_times])

\* generate_summary: the id is not stored, summarize_shape returns, or it
\* raises
SummarizeStored ==
    \E model_id \in ModelIds :
        \/ GenerateSummaryNotFound(model_id)
        \/ /\ DictHas(models, model_id)
           /\ LET summary == summarize_shape(DictGet(models, model_id))
              IN Finish([Session EXCEPT !.summaries = MapSet(@, model_id, summary)],
                        [NoCall EXCEPT !.op = "generate_summary", !.arg = model_id,
                                       !.collaborator = "returned",
                                       !.invoked = TRUE, !.outcome = "returned",
                                       !.result = summary])
        \/ \E error_text \in ErrorTexts : GenerateSummaryFailed(model_id, error_text)

\* has_model, get_model, get_summary
LookupById ==
    \E model_id \in ModelIds :
        \/ Finish(Session,
                        [NoCall EXCEPT !.op = "has_model", !.arg = model_id,
                                       !.outcome = "returned",
                                       !.result = [kind |-> "bool",
                                                   value |-> has_model(model_id)]])
        \/ Finish(Session,
                        [NoCall EXCEPT !.op = "get_model", !.arg = model_id,
                                       !.outcome = "returned",
                                       !.result = get_model(model_id)])
        \/ Finish(Session,
                        [NoCall EXCEPT !.op = "get_summary", !.arg = model_id,
                                       !.outcome = "returned",
                                       !.result = get_summary(model_id)])

\* list(self._models.keys())
list_models == [i \in 1..Len(models) |-> models[i].k]

\* a mutant of get_session_stats: loaded_models reports the capacity
get_session_stats_reports_capacity ==
    [kind |-> "dict", loaded_models |-> max_models, max_models |-> max_models,
     model_ids |-> [i \in 1..Len(models) |-> models[i].k]]

get_session_stats ==
    [kind |-> "dict", loaded_models |-> Len(models), max_models |-> max_models,
     model_ids |-> [i \in 1..Len(models) |-> models[i].k]]

\* list_models, get_session_stats
LookupAll ==
    \/ Finish(Session,
                    [NoCall EXCEPT !.op = "list_models", !.outcome = "returned",
                                   !.result = [kind |-> "list", items |-> list_models]])
    \/ Finish(Session,
                    [NoCall EXCEPT !.op = "get_session_stats",
                                   !.outcome = "returned",
                                   !.result = get_session_stats])

LookupInit ==
    /\ SessionInit
    /\ args = PyNone
    /\ ir = PyNone
    /\ wire = PyNone
    /\ step = [op |-> "none", outcome |-> "none"]

LookupNext ==
    LoadOfSize \/ SummarizeStored \/ RemoveModel \/ LookupById \/ LookupAll

SpecLookup == LookupInit /\ [][LookupNext]_vars

-----------------------------------------------------------------------------
(* Session cache: lookups, reloads, alignment of the maps *)

LookupOps == {"has_model", "get_model", "get_summary", "list_models", "get_session_stats"}

\* C32: has_model, get_model, get_summary, list_models and get_session_stats
\* leave the stored models, the cached summaries and the load times as they
\* were, and get_session_stats reports loaded_models equal to the number of
\* model ids it lists.
C32_LookupsArePure ==
    [][call'.op \in LookupOps =>
          /\ call'.outcome = "returned"
          /\ models' = models
          /\ summaries' = summaries
          /\ load_times' = load_times
          /\ call'.op = "get_session_stats" =>
                call'.result.loaded_models = Len(call'.result.model_ids)]_vars

\* stats read from a session holding two models and a summary
C32_Witness ==
    /\ call.op = "get_session_stats"
    /\ call.result.loaded_models = 2
    /\ call.result.model_ids = <<"m0", "m1">>
    /\ DOMAIN summaries # {}
    /\ call.kept.models /\ call.kept.summaries /\ call.kept.load_times

\* C33: whenever get_summary(m) returns a summary, it was produced by
\* generate_summary for the handle now stored under m; after load_model
\* stored a new handle under an id with a cached summary, the old summary
\* is no longer returned.
C33_NoStaleSummary ==
    (call.op = "get_summary" /\ call.result # PyNone) =>
        /\ has_model(call.arg)
        /\ \/ call.result.placeholder
           \/ call.result = summarize_shape(get_model(call.arg))

\* C34: the ids with a load-time record are exactly the ids of the stored
\* models, and every id with a cached summary is the id of a stored model,
\* in every state reached through load_model, generate_summary,
\* remove_model and cleanup_old_models.
C34_MapsAligned ==
    /\ DictKeys(load_times) = DictKeys(models)
    /\ DOMAIN summaries \subseteq DictKeys(models)

\* a load evicted a model that had a cached summary, and another model with
\* its summary stays
C34_Witness ==
    /\ SessionCall("load_model")
    /\ Removed # {}
    /\ ~call.kept.summaries
    /\ DOMAIN summaries # {}
    /\ Len(models) = 2

\* the place of the last load of an id in the log, 0 when there is none
LastLoad(log, id) ==
    LET at == {i \in 1..Len(log) : log[i] = [op |-> "load_model", id |-> id]}
    IN IF at = {} THEN 0 ELSE CHOOSE i \in at : \A j \in at : j <= i

ReloadScenario ==
    <<[op |-> "load_model", id |-> "m0"], [op |-> "load_model", id |-> "m1"],
      [op |-> "load_model", id |-> "m0"], [op |-> "load_model", id |-> "m2"]>>

\* C35: load_model of a source whose id is already stored replaces the
\* handle without adding an entry and sets the id's load time to the time
\* of this load, so that every load time held is the time of the last load
\* of its id; with max_models = 2 and strictly increasing times, load m0,
\* load m1, load m0, load m2 leaves exactly m0 and m2.
C35_ReloadRefreshes ==
    [][(call'.op = "load_model" /\ call'.outcome = "returned") =>
          LET id == call'.result.model_id
          IN /\ DictHas(models, id) =>
                   /\ Len(call'.held) = Len(load_times)
                   /\ Len(models') <= Len(models)
                   /\ DictGet(call'.held, id) = call'.t
                   /\ DictGet(models', id) = call'.result
                   /\ DictGet(load_times', id) = call'.t
             /\ \A i \in 1..Len(load_times') :
                   LastLoad(step'.log, load_times'[i].k) = load_times'[i].v + 1
             /\ (max_models = 2 /\ step'.log = ReloadScenario) =>
                   /\ DictKeys(models') = {"m0", "m2"}
                   /\ DictKeys(load_times') = {"m0", "m2"}]_vars

\* the scenario ran with max_models = 2, the reload having changed the handle
C35_Witness ==
    /\ max_models = 2
    /\ step.log = ReloadScenario
    /\ DictKeys(models) = {"m0", "m2"}
    /\ DictGet(load_times, "m0") = 2
    /\ Removed = {[k |-> "m1", v |-> 1]}

\* C38: of entries with identical load times, cleanup_old_models evicts the
\* one inserted earlier first: an evicted entry never stands after a retained
\* entry of the same load time in insertion order. The victims are thereby a
\* function of the entries held and of their order.
C38_StableTieBreak ==
    (SessionCall("load_model") \/ SessionCall("cleanup_old_models")) =>
        \A i, j \in 1..Len(call.held) :
            ( /\ ~DictHas(load_times, call.held[i].k)
              /\ DictHas(load_times, call.held[j].k)
              /\ call.held[i].v = call.held[j].v )
            => i < j

\* a cleanup evicted one of two entries loaded at the same time
C38_Witness ==
    /\ SessionCall("load_model")
    /\ \E e \in Removed : \E r \in Range(load_times) : e.v = r.v
    /\ Len(call.held) = 3

NoStep == [op |-> "none", outcome |-> "none"]

\* the session cache alone; no IR is built
Init ==
    /\ SessionInit
    /\ args = PyNone
    /\ ir = PyNone
    /\ wire = PyNone
    /\ step = NoStep

Next == SessionNext

Spec == Init /\ [][Next]_vars

=============================================================================
